---- MODULE Spec2Model ----
(***************************************************************************)
(* NLog sink dispatch engine: the asynchronous sink (bounded queue, one    *)
(* consumer goroutine, per-level overflow policy, reusable block timer),   *)
(* the synchronous sink (TryLock path and pool fallback) and Close.        *)
(*                                                                         *)
(* Threads are numbered: the consumer goroutine is 0, producers are        *)
(* 1..NProducers, closers follow.  A record is identified by the producer  *)
(* that passed it to Handle and the number of that call.                   *)
(***************************************************************************)
EXTENDS Integers, Sequences, FiniteSets, TLC

\* ------------------------------------------------------------------ bounds
NProducers == 2      \* caller goroutines using the sink
MaxCalls == 2        \* Handle / HandleLog calls made by each producer
MaxBuf == 2          \* largest BufferSize tried
NClosers == 2        \* goroutines calling Close
MaxCloses == 2       \* Close calls made by each closer
MaxFailures == 1     \* destination writes that may fail in one run
MaxChildren == 3     \* most children of a MultiHandler
MaxRecord == 3       \* largest formatted record, in bytes
MaxWrites == 4       \* writes to the rotating file in one run
MaxTime == 4         \* last tick of the clock
MaxFsErrors == 1     \* file-system calls that may fail in one run
MaxInitialSize == 1  \* largest size of the log file found at construction
BufCap == 2          \* capacity of the buffered writer, in bytes
NewBufCap == 1       \* capacity of a buffer the pools allocate (Grow(256)), in units
PoolCeiling == 2     \* the 64 KiB ceiling of putBuffer, in the same units
MaxBufCap == 3       \* largest capacity a buffer grows to, in the same units
MaxPooled == 2       \* most buffers a pool holds

\* ------------------------------------------------------- program constants
DebugLevel == 0
InfoLevel == 1
WarnLevel == 2
ErrorLevel == 3
FatalLevel == 4
PanicLevel == 5
DropNewest == 0
DropOldest == 1
Block == 2

Levels == DebugLevel..PanicLevel

Consumer == 0
Free == -1
NoEntry == [id |-> 0, ticket |-> 0]
Producers == 1..NProducers
Closers == (NProducers + 1)..(NProducers + NClosers)

VARIABLES
  cfg,          \* the configuration the sink was constructed with
  queue,        \* h.queue: records waiting for the consumer, oldest first, each with
                \* its ticket (the number of the enqueue that put it there)
  queueClosed,  \* close(h.queue) has run
  closedSig,    \* close(h.closed) has run
  mu,           \* holder of consoleBase.mu / fileBase.mu, or Free
  inWrite,      \* threads currently inside the destination's Write
  out,          \* what the destination has accepted, in order: records with the writing thread;
                \* late: the file had been closed, the bytes stay in the buffered writer
  timerArmed,   \* h.blockTimer is running
  timerC,       \* values waiting in h.blockTimer.C (0 or 1)
  expiry,       \* history of h.blockTimer: the call whose Reset armed the running
                \* timer, the call whose Reset led to the value in the channel (0 =
                \* none)
  processed,    \* Stats.ProcessedTotal
  dropped,      \* Stats.Dropped{Debug,Info,Warn,Error}
  blocked,      \* Stats.BlockedTotal
  pc,           \* position of each producer inside Handle
  calls,        \* Handle calls started by each producer
  rets,         \* per producer: the values its calls have returned, in order
  cpc,          \* position of the consumer inside process()
  centry,       \* the queue element the consumer holds (NoEntry = none)
  cmode,        \* which loop of process() the consumer is in
  clpc,         \* position of each closer inside Close
  closeRets,    \* per closer: the values its Close calls have returned
  closeLog,     \* the values returned by Close calls, in the order of return
  fileCloses,   \* file sinks: how often the OS file has been closed
  flushErr,     \* file sinks: closeFile's Flush, Sync or Close returned an error
  nenq,         \* history: number of successful enqueues so far
  enqd,         \* history: the records enqueued so far
  evicted,      \* history: records removed from the queue by a DropOldest producer
  sawFull,      \* history: some Handle call found the queue full
  failures,     \* history: destination writes that failed
  mh,           \* the MultiHandler: its children and the flags NewMultiHandler cached
  fan,          \* the last fan-out operation: its child calls, in order, and its result
  fb,           \* fileBase: thresholds, currentSize, lastRotateTime, hasRotation, the file
  disk,         \* the log directory: the live file and the rotated files by name
  now,          \* the clock, in ticks
  rlog,         \* history of the file writes: counters and the facts of the last write
  batch,        \* batchBuf of the batching consumer: the records formatted into it
  deadline,     \* the drain deadline of the consumer: "unset", "running", "elapsed"
  closeCalled,  \* history: Close has been called
  shutdowns,    \* history: how often a Close call went on to shut the sink down
  enqAtClose,   \* history: the records enqueued and not evicted before the first Close call
  overlap,      \* history: some Handle call was running at or after the first Close call
  closeOverlap, \* history: some Close call started while another was running
  pool,         \* the records that have been returned to the record pool (core.PutEntry)
  bufs,         \* the byte buffers: the capacities held in the formatter's bufferPool
                \* and in the sink's parBufPool, and the buffer each caller is using
  crashed       \* an unrecovered panic has ended the process

sinkVars == <<queue, queueClosed, closedSig, mu, inWrite, out, fileCloses, flushErr>>
timerVars == <<timerArmed, timerC, expiry>>
statVars == <<processed, dropped, blocked>>
prodVars == <<pc, calls, rets>>
consVars == <<cpc, centry, cmode, deadline, batch>>
closeVars == <<clpc, closeRets, closeLog, closeCalled, shutdowns, enqAtClose>>
histVars == <<nenq, enqd, evicted, sawFull, failures, overlap, closeOverlap, crashed>>
fanVars == <<mh, fan>>

rotVars == <<fb, disk, now, rlog>>

vars == <<cfg, pool, bufs, fanVars, rotVars, sinkVars, timerVars, statVars, prodVars, consVars, closeVars, histVars>>

\* ------------------------------------------------------------- helpers
Range(s) == {s[i] : i \in 1..Len(s)}

\* The record passed to Handle by producer p in its k-th call.
RecId(p, k) == (p - 1) * MaxCalls + k
ProducerOf(id) == ((id - 1) \div MaxCalls) + 1
\* The record producer p is handling now (its latest call).
Cur(p) == RecId(p, calls[p])
LevelOf(id) == cfg.level[ProducerOf(id)]

\* --------------------------------------------------------- configuration
\* The per-level policy map of the sinks under test: Info drops the newest,
\* Warn drops the oldest, Error blocks; the other levels are absent from it.
TestPolicy == (InfoLevel :> DropNewest) @@ (WarnLevel :> DropOldest) @@ (ErrorLevel :> Block)

\* handler.DefaultLevelPolicy(): the map a sink gets when none is configured.
DefaultLevelPolicy ==
  (DebugLevel :> DropNewest) @@ (InfoLevel :> DropNewest) @@ (WarnLevel :> DropNewest)
    @@ (ErrorLevel :> Block)

\* The levels producers log at.
UsedLevels == {InfoLevel, WarnLevel, ErrorLevel, FatalLevel}

\* Each producer logs at one level.
LevelChoices == [Producers -> UsedLevels]

AllAt(l) == [p \in Producers |-> l]

\* The number of Handle calls each producer makes: the first producer the most.
Workload == [p \in Producers |-> IF p = 1 THEN MaxCalls ELSE MaxCalls - 1]

Uniform == [p \in Producers |-> MaxCalls]
Single == [p \in Producers |-> IF p = 1 THEN 1 ELSE 0]

\* A scenario: the sink's configuration (async, file, fmt, concurrentSafe,
\* bufferSize, overflowPolicy), the build's timer semantics (timerSync: Stop and
\* Reset discard a pending expiry, as since Go 1.23) and the workload (the level
\* and the number of calls of each producer, the number of closers).
Config(async, file, fmt, cs, size, lv, sync, n, k) ==
  [async |-> async, file |-> file, fmt |-> fmt, concurrentSafe |-> cs,
   bufferSize |-> size, level |-> lv, overflowPolicy |-> TestPolicy, timerSync |-> sync,
   calls |-> n, closers |-> k]

HasBlock(lv) == \E p \in Producers : lv[p] = ErrorLevel

\* Asynchronous console sinks with the default (BufferFormatter) text
\* formatter and a destination that needs the lock, for every queue size and
\* level assignment, one closer.
AsyncConfigs ==
  {Config(TRUE, FALSE, "buffer", FALSE, n, lv, sy, Workload, 1) :
     n \in 1..MaxBuf, lv \in LevelChoices, sy \in {FALSE}}
  \cup
  {c \in {Config(TRUE, FALSE, "buffer", FALSE, n, lv, TRUE, Workload, 1) :
            n \in 1..MaxBuf, lv \in LevelChoices} : HasBlock(c.level)}

\* The other formatter kinds and concurrent-safe destinations, for Block
\* producers (the ones that reach write() on an asynchronous sink).
AsyncWriteConfigs ==
  {Config(TRUE, FALSE, f, cs, 1, AllAt(ErrorLevel), FALSE, Workload, 0) :
     f \in {"buffer", "writer", "plain"}, cs \in BOOLEAN}

\* Synchronous console sinks: every formatter kind, both kinds of destination.
SyncConfigs ==
  {Config(FALSE, FALSE, f, cs, 1, AllAt(InfoLevel), FALSE, Uniform, 1) :
     f \in {"buffer", "writer", "plain"}, cs \in BOOLEAN}

\* File sinks without rotation (MaxSize = MaxAge = RotateInterval = 0).
FileConfigs ==
  {Config(a, TRUE, "buffer", FALSE, 1, AllAt(ErrorLevel), FALSE, Workload, 1) : a \in BOOLEAN}

\* Several goroutines closing one sink that a single record passes through.
CloseConfigs ==
  {Config(a, f, "buffer", FALSE, 1, AllAt(InfoLevel), FALSE, Single, NClosers) :
     a \in BOOLEAN, f \in BOOLEAN}

\* Block-policy producers only, nobody closes the sink.
BlockConfigs ==
  {Config(TRUE, FALSE, "buffer", FALSE, n, AllAt(ErrorLevel), sy, Uniform, 0) :
     n \in 1..MaxBuf, sy \in BOOLEAN}

\* Block-policy producers on the smallest queue and one closer.
WakeConfigs ==
  {Config(TRUE, FALSE, "buffer", FALSE, 1, AllAt(ErrorLevel), sy, Workload, 1) :
     sy \in BOOLEAN}

\* Asynchronous console sinks constructed without a policy map
\* (applyConsoleDefaults), all records at one level, for every level.
DefaultConfigs ==
  {[Config(TRUE, FALSE, "buffer", FALSE, 1, AllAt(l), FALSE, Workload, 1)
      EXCEPT !.overflowPolicy = DefaultLevelPolicy] : l \in Levels}

Configs == AsyncConfigs \cup AsyncWriteConfigs \cup SyncConfigs \cup FileConfigs \cup CloseConfigs

\* handler.NewStoppedTimer: a timer that is not running and whose channel is empty.
NewStoppedTimer == [armed |-> FALSE, c |-> 0]

\* handler.NewStats
NewStats == [processed |-> 0, dropped |-> [l \in DebugLevel..ErrorLevel |-> 0], blocked |-> 0]

\* ------------------------------------------------------------ fan-out
\* The children a MultiHandler is built from.  fast: the child implements
\* FastHandler (HandleLog); rc: what its CanRecycleEntry() reports, "none" when
\* it has no such method; keeps: its Handle keeps the *core.Entry after it has
\* returned (an asynchronous sink queues it).  The sinks of this library that
\* keep the record report false (AsyncConsoleHandler, AsyncFileHandler).
ChildKinds ==
  {k \in [fast : BOOLEAN, rc : {"true", "false", "none"}, keeps : BOOLEAN] :
     k.keeps => k.rc # "true"}

RECURSIVE SeqsUpTo(_, _)
SeqsUpTo(S, n) ==
  IF n = 0 THEN {<< >>}
  ELSE LET shorter == SeqsUpTo(S, n - 1)
       IN  shorter \cup {Append(q, x) : q \in {r \in shorter : Len(r) = n - 1}, x \in S}

ChildSeqs == SeqsUpTo(ChildKinds, MaxChildren)

\* error values: Nil is a nil error, i > 0 the error child i returned
Nil == 0

\* A conjunction that ignores children without a CanRecycleEntry method.
NewMultiHandlerLoop_SkipsMissing(m, i) ==
  [m EXCEPT !.allFast = \A j \in i..Len(m.handlers) : m.handlers[j].fast,
            !.recycleEntry = \A j \in i..Len(m.handlers) : m.handlers[j].rc # "false"]

\* The loop of NewMultiHandler over handlers[i..]: allFast and recycleEntry
\* start true and are cleared by a child that is not a FastHandler, and by a
\* child whose CanRecycleEntry() is false or missing.
RECURSIVE NewMultiHandlerLoop(_, _)
NewMultiHandlerLoop(m, i) ==
  IF i > Len(m.handlers) THEN m
  ELSE LET h == m.handlers[i]
       IN  NewMultiHandlerLoop(
             [m EXCEPT !.allFast = IF h.fast THEN @ ELSE FALSE,
                       !.recycleEntry = IF h.rc = "true" THEN @ ELSE FALSE], i + 1)

NewMultiHandler(handlers) ==
  NewMultiHandlerLoop([handlers |-> handlers, allFast |-> TRUE, recycleEntry |-> TRUE], 1)

\* Keeps the first error instead of the last one.
RECURSIVE LastErr_First(_, _, _)
LastErr_First(cs, i, lastErr) ==
  IF i > Len(cs) THEN lastErr
  ELSE LastErr_First(cs, i + 1,
                     IF cs[i].err # Nil /\ lastErr = Nil THEN cs[i].err ELSE lastErr)

\* var lastErr error; for ... { if err := ...; err != nil { lastErr = err } }
\* over cs[i..], the calls already made to the children.
RECURSIVE LastErr(_, _, _)
LastErr(cs, i, lastErr) ==
  IF i > Len(cs) THEN lastErr
  ELSE LastErr(cs, i + 1, IF cs[i].err # Nil THEN cs[i].err ELSE lastErr)

\* The calls one fan-out operation makes: child i is called with method(i), and
\* fails iff fails[i]; entry tells whether the call was handed the shared record.
ChildCalls(method(_), entry(_), fails) ==
  [i \in 1..Len(mh.handlers) |->
     [child |-> i, method |-> method(i), entry |-> entry(i),
      err |-> IF fails[i] THEN i ELSE Nil]]

Failures == [1..Len(mh.handlers) -> BOOLEAN]

NoFanOut == [op |-> "none", calls |-> << >>, ret |-> Nil, got |-> FALSE, put |-> FALSE]

\* MultiHandler.HandleLog: the all-fast path calls HandleLog on every child and
\* takes no record from the pool; the mixed path takes one (got), hands it to
\* the children that are not FastHandlers, and puts it back iff recycleEntry.
MultiHandleLog(fails) ==
  /\ LET method(i) == IF mh.handlers[i].fast THEN "HandleLog" ELSE "Handle"
         entry(i) == ~mh.handlers[i].fast
         cs == ChildCalls(method, entry, fails)
     IN  fan' = [op |-> "HandleLog", calls |-> cs, ret |-> LastErr(cs, 1, Nil),
                 got |-> ~mh.allFast, put |-> ~mh.allFast /\ mh.recycleEntry]
  /\ UNCHANGED <<cfg, bufs, mh, rotVars, pool, sinkVars, timerVars, statVars, prodVars, consVars,
                 closeVars, histVars>>

\* MultiHandler.Handle: every child's Handle gets the caller's record.
MultiHandle(fails) ==
  /\ LET method(i) == "Handle"
         entry(i) == TRUE
         cs == ChildCalls(method, entry, fails)
     IN  fan' = [op |-> "Handle", calls |-> cs, ret |-> LastErr(cs, 1, Nil),
                 got |-> FALSE, put |-> FALSE]
  /\ UNCHANGED <<cfg, bufs, mh, rotVars, pool, sinkVars, timerVars, statVars, prodVars, consVars,
                 closeVars, histVars>>

\* MultiHandler.Close: every child's Close is called.
MultiClose(fails) ==
  /\ LET method(i) == "Close"
         entry(i) == FALSE
         cs == ChildCalls(method, entry, fails)
     IN  fan' = [op |-> "Close", calls |-> cs, ret |-> LastErr(cs, 1, Nil),
                 got |-> FALSE, put |-> FALSE]
  /\ UNCHANGED <<cfg, bufs, mh, rotVars, pool, sinkVars, timerVars, statVars, prodVars, consVars,
                 closeVars, histVars>>

\* Logger.log over a MultiHandler, child by child.  The logger takes a record
\* from the pool and hands it to MultiHandler.Handle, which hands the same
\* record to every child's Handle.
LogStart ==
  /\ fan.op = "none"
  /\ fan' = [op |-> "Log", calls |-> << >>, ret |-> Nil, got |-> TRUE, put |-> FALSE,
             held |-> {}, puts |-> 0, early |-> FALSE, done |-> FALSE]
  /\ UNCHANGED <<cfg, bufs, mh, rotVars, pool, sinkVars, timerVars, statVars, prodVars, consVars,
                 closeVars, histVars>>

\* One turn of the loop of MultiHandler.Handle: handler.Handle(entry) on the
\* next child.  A child that keeps the record (an asynchronous sink that
\* queued it) holds it after the call has returned nil.
LogChild(fail) ==
  /\ fan.op = "Log" /\ ~fan.done
  /\ Len(fan.calls) < Len(mh.handlers)
  /\ LET i == Len(fan.calls) + 1
     IN  fan' = [fan EXCEPT
                   !.calls = Append(@, [child |-> i, method |-> "Handle", entry |-> TRUE,
                                        err |-> IF fail THEN i ELSE Nil]),
                   !.held = IF mh.handlers[i].keeps /\ ~fail THEN @ \cup {i} ELSE @]
  /\ UNCHANGED <<cfg, bufs, mh, rotVars, pool, sinkVars, timerVars, statVars, prodVars, consVars,
                 closeVars, histVars>>

\* MultiHandler.Handle returns lastErr to Logger.log, which returns on an
\* error and else puts the record back if l.recycleEntry, which Build took from
\* MultiHandler.CanRecycleEntry().
LogReturn ==
  /\ fan.op = "Log" /\ ~fan.done
  /\ Len(fan.calls) = Len(mh.handlers)
  /\ LET err == LastErr(fan.calls, 1, Nil)
         puts == err = Nil /\ mh.recycleEntry
     IN  fan' = [fan EXCEPT !.ret = err, !.done = TRUE, !.put = puts,
                            !.puts = IF puts THEN @ + 1 ELSE @]
  /\ UNCHANGED <<cfg, bufs, mh, rotVars, pool, sinkVars, timerVars, statVars, prodVars, consVars,
                 closeVars, histVars>>

\* process() of asynchronous child i: it has written the record it dequeued
\* and calls core.PutEntry(entry).  early: a later child had not been handed
\* the record yet.
ChildProcess(i) ==
  /\ fan.op = "Log"
  /\ i \in fan.held
  /\ fan' = [fan EXCEPT !.held = @ \ {i}, !.puts = @ + 1,
                        !.early = @ \/ Len(fan.calls) < Len(mh.handlers)]
  /\ UNCHANGED <<cfg, bufs, mh, rotVars, pool, sinkVars, timerVars, statVars, prodVars, consVars,
                 closeVars, histVars>>

\* ------------------------------------------------------- file rotation
\* ticks in one second: rotated files are named with a timestamp in seconds
TicksPerSecond == 2

\* FileConfig thresholds tried: 0 disables a trigger.
MaxSizes == {0, 2}
MaxAges == {0, 2}
RotateIntervals == {0, 3}
MaxBackupsTried == {0, 1, 2}

RotationConfigs ==
  [maxSize : MaxSizes, maxAge : MaxAges, rotateInterval : RotateIntervals,
   maxBackups : MaxBackupsTried]

NoRotation == [maxSize |-> 0, maxAge |-> 0, rotateInterval |-> 0, maxBackups |-> 0]

\* time.Now().Format("2006-01-02T15-04-05"): the time cut to whole seconds
Stamp(t) == t \div TicksPerSecond

\* The file sinks the rotation is tried with: a synchronous sink on the
\* BufferFormatter path with every combination of thresholds, and the other
\* write paths and the asynchronous sink with the size trigger.
RotateSinks ==
  LET Sink(a, f) == Config(a, TRUE, f, FALSE, 1, AllAt(InfoLevel), FALSE, Workload, 1)
  IN  {[sink |-> Sink(FALSE, "buffer"), rotation |-> c, fileSize |-> z] :
         c \in RotationConfigs, z \in 0..MaxInitialSize}
        \cup {[sink |-> Sink(a, f), rotation |-> c, fileSize |-> 0] :
                a \in BOOLEAN, f \in {"buffer", "writer", "plain"},
                c \in {r \in RotationConfigs :
                         r.maxAge = 0 /\ r.rotateInterval = 0 /\ r.maxBackups = 0}}

\* what is recorded of a write while none has happened
NoWrite ==
  [start |-> [size |-> 0, onDisk |-> 0, buffered |-> 0, elapsed |-> 0, n |-> 0,
              need |-> FALSE],
   o |-> "ok", checkErr |-> FALSE, rotated |-> FALSE, wrote |-> FALSE, at |-> 0]

\* initFileBase, after NewFileHandler opened (or created) the file and found
\* fileSize bytes in it; the directory holds no rotated files yet.
InitFile(c, fileSize) ==
  /\ fb = [maxSize |-> c.maxSize, maxAge |-> c.maxAge, maxBackups |-> c.maxBackups,
           rotateInterval |-> c.rotateInterval,
           currentSize |-> fileSize, lastRotateTime |-> 0,
           hasRotation |-> (c.maxSize > 0 \/ c.maxAge > 0 \/ c.rotateInterval > 0),
           fileOpen |-> TRUE, buffered |-> 0, bufErr |-> FALSE]
  /\ disk = [live |-> TRUE, size |-> fileSize, mtime |-> 0, backups |-> << >>]
  /\ now = 0
  /\ rlog = [writes |-> 0, initial |-> fileSize, bytes |-> 0, rotations |-> 0, attempts |-> 0,
             fsErrors |-> 0, recoveredAt |-> 0, last |-> NoWrite]

\* A comparison that needs the threshold to be exceeded.
NeedRotate_Exceeds ==
  /\ fb.hasRotation
  /\ \/ fb.maxSize > 0 /\ fb.currentSize > fb.maxSize
     \/ fb.maxAge > 0 /\ now - fb.lastRotateTime > fb.maxAge
     \/ fb.rotateInterval > 0 /\ now - fb.lastRotateTime > fb.rotateInterval

\* rotateIfNeeded's needRotate
NeedRotate ==
  /\ fb.hasRotation
  /\ \/ fb.maxSize > 0 /\ fb.currentSize >= fb.maxSize
     \/ fb.maxAge > 0 /\ now - fb.lastRotateTime >= fb.maxAge
     \/ fb.rotateInterval > 0 /\ now - fb.lastRotateTime >= fb.rotateInterval

\* os.Rename(b.filename, rotatedName): the live file becomes the rotated file
\* of this second, replacing a rotated file of the same name; bufWriter.Flush
\* before it wrote the buffered bytes, which sets the modification time.
Renamed(d) ==
  LET name == Stamp(now)
      file == [mtime |-> IF fb.buffered > 0 THEN now ELSE d.mtime,
               gen |-> rlog.rotations + 1]
  IN  [d EXCEPT !.live = FALSE,
                !.backups = [f \in DOMAIN d.backups \cup {name} |->
                               IF f = name THEN file ELSE d.backups[f]]]

\* cleanupOldBackups: the rotated files sorted by modification time, oldest
\* first, lose their first len - maxBackups members; files of equal time sort
\* in either order.  The set of directories this can leave.
Cleanups(bk, n) ==
  IF Cardinality(DOMAIN bk) <= n THEN {bk}
  ELSE {[f \in DOMAIN bk \ R |-> bk[f]] :
          R \in {R \in SUBSET DOMAIN bk :
                   /\ Cardinality(R) = Cardinality(DOMAIN bk) - n
                   /\ \A r \in R, k \in DOMAIN bk \ R : bk[r].mtime <= bk[k].mtime}}

\* Leaves the time of the last rotation as it was.
RotateReset_KeepsTime(f) ==
  [f EXCEPT !.fileOpen = TRUE, !.buffered = 0, !.bufErr = FALSE, !.currentSize = 0]

\* the end of rotate(): b.file = file, the writers are reset,
\* b.currentSize = 0, b.lastRotateTime = time.Now()
RotateReset(f) ==
  [f EXCEPT !.fileOpen = TRUE, !.buffered = 0, !.bufErr = FALSE, !.currentSize = 0,
            !.lastRotateTime = now]

\* bufio.Writer.Write of p bytes with b bytes buffered: while p does not fit,
\* an empty buffer passes p to the file directly, a non-empty one is filled
\* and flushed; what is left is copied into the buffer.  The result is the
\* buffered bytes and the bytes that reached the file.
RECURSIVE BufWrite(_, _, _)
BufWrite(b, p, flushed) ==
  IF p > BufCap - b
    THEN IF b = 0 THEN BufWrite(0, 0, flushed + p)
         ELSE BufWrite(0, p - (BufCap - b), flushed + BufCap)
    ELSE [buffered |-> b + p, flushed |-> flushed]

\* Counts only what reached the file.
Counted_FlushedOnly(path, n, dFlushed, dBuffered) == dFlushed

\* What a successful write adds to b.currentSize: the n returned by
\* bufWriter.Write (BufferFormatter and Format paths), or the growth of
\* sizeWriter.written plus the growth of bufWriter.Buffered() (WriterFormatter).
Counted(path, n, dFlushed, dBuffered) ==
  IF path = "writer" THEN dFlushed + dBuffered ELSE n

\* The file-system call that fails in a write, if any.
Outcomes ==
  {"ok", "flushErr", "syncErr", "closeErr", "renameErr", "reopenErr", "removeErr",
   "openErr", "writeErr"}

RotateOutcomes == Outcomes \ {"ok", "writeErr"}

\* fileBase.write of a record of n formatted bytes, under b.mu: rotateIfNeeded,
\* and when it returned nil the write into the buffered writer.  o names the
\* call that fails.  On an asynchronous sink the writer is the consumer
\* goroutine, which returns from process() when the write returned an error.
FileWrite(n, o) ==
  LET need == NeedRotate
      start == [size |-> fb.currentSize, onDisk |-> disk.size,
                buffered |-> fb.buffered, elapsed |-> now - fb.lastRotateTime,
                n |-> n, need |-> need]
      Log(checkErr, rotated, wrote) ==
        [rlog EXCEPT !.writes = @ + 1,
                     !.bytes = IF wrote THEN @ + n ELSE @,
                     !.attempts = IF need THEN @ + 1 ELSE @,
                     !.rotations = IF rotated THEN @ + 1 ELSE @,
                     !.fsErrors = IF o = "ok" THEN @ ELSE @ + 1,
                     !.recoveredAt = IF o = "renameErr" /\ @ = 0 THEN rlog.writes + 1 ELSE @,
                     !.last = [start |-> start, o |-> o, checkErr |-> checkErr,
                               rotated |-> rotated, wrote |-> wrote, at |-> now]]
      \* the write into bufWriter fails when the buffer holds an earlier
      \* error or when the file write it needs fails
      WriteFails(f) == f.bufErr \/ o = "writeErr"
      \* n, err := b.bufWriter.Write(data); if err == nil { b.currentSize += n }
      Written(f, d) ==
        IF WriteFails(f) THEN <<[f EXCEPT !.bufErr = TRUE], d>>
        ELSE LET w == BufWrite(f.buffered, n, 0)
             IN  <<[f EXCEPT !.currentSize =
                               @ + Counted(cfg.fmt, n, w.flushed, w.buffered - f.buffered),
                             !.buffered = w.buffered],
                   [d EXCEPT !.size = @ + w.flushed,
                             !.mtime = IF w.flushed > 0 THEN now ELSE @]>>
      \* bufWriter.Flush() at the start of rotate()
      Flushed(d) == [d EXCEPT !.size = @ + fb.buffered,
                              !.mtime = IF fb.buffered > 0 THEN now ELSE @]
      Returns(err) == cpc' = IF cfg.async /\ err THEN "dead" ELSE cpc
  IN
  /\ rlog.writes < MaxWrites
  /\ cfg.async => cpc = "select"
  /\ o # "ok" => rlog.fsErrors < MaxFsErrors
  /\ o \in RotateOutcomes => need /\ fb.fileOpen /\ ~fb.bufErr
  /\ o = "removeErr" => fb.maxBackups > 0 /\ Cardinality(DOMAIN Renamed(disk).backups) > fb.maxBackups
  /\ o = "writeErr" => n > BufCap - (IF need THEN 0 ELSE fb.buffered)
  /\ IF ~need
       THEN \* no rotation: the write goes to the buffered writer as it is
            /\ fb' = Written(fb, disk)[1]
            /\ disk' = Written(fb, disk)[2]
            /\ rlog' = Log(FALSE, FALSE, ~WriteFails(fb))
            /\ Returns(WriteFails(fb))
       ELSE IF ~fb.fileOpen \/ fb.bufErr \/ o \in {"flushErr", "syncErr"}
       THEN \* Flush or Sync failed (Flush repeats an earlier write error,
            \* Sync fails on a closed file): nothing changed
            /\ UNCHANGED <<fb, disk>>
            /\ rlog' = Log(TRUE, FALSE, FALSE)
            /\ Returns(TRUE)
       ELSE IF o = "closeErr"
       THEN /\ fb' = [fb EXCEPT !.fileOpen = FALSE, !.buffered = 0]
            /\ disk' = Flushed(disk)
            /\ rlog' = Log(TRUE, FALSE, FALSE)
            /\ Returns(TRUE)
       ELSE IF o = "renameErr"
       THEN \* the original path is reopened; bufWriter is not reset
            /\ fb' = [fb EXCEPT !.fileOpen = TRUE, !.buffered = 0]
            /\ disk' = Flushed(disk)
            /\ rlog' = Log(TRUE, FALSE, FALSE)
            /\ Returns(TRUE)
       ELSE IF o = "reopenErr"
       THEN /\ fb' = [fb EXCEPT !.fileOpen = FALSE, !.buffered = 0]
            /\ disk' = Flushed(disk)
            /\ rlog' = Log(TRUE, FALSE, FALSE)
            /\ Returns(TRUE)
       ELSE \E kept \in (IF fb.maxBackups > 0 /\ o # "removeErr"
                           THEN Cleanups(Renamed(disk).backups, fb.maxBackups)
                           ELSE {Renamed(disk).backups}) :
              IF o = "openErr"
              THEN /\ fb' = [fb EXCEPT !.fileOpen = FALSE, !.buffered = 0]
                   /\ disk' = [live |-> FALSE, size |-> 0, mtime |-> disk.mtime,
                               backups |-> kept]
                   /\ rlog' = Log(TRUE, FALSE, FALSE)
                   /\ Returns(TRUE)
              ELSE LET f == RotateReset(fb)
                       d == [live |-> TRUE, size |-> 0, mtime |-> now, backups |-> kept]
                   IN  /\ fb' = Written(f, d)[1]
                       /\ disk' = Written(f, d)[2]
                       /\ rlog' = Log(FALSE, TRUE, ~WriteFails(f))
                       /\ Returns(WriteFails(f))
  /\ UNCHANGED <<cfg, bufs, mh, fan, now, pool, sinkVars, timerVars, statVars, prodVars,
                 centry, cmode, deadline, batch, closeVars, histVars>>

\* time passes
Tick ==
  /\ now < MaxTime
  /\ now' = now + 1
  /\ UNCHANGED <<cfg, bufs, mh, fan, fb, disk, rlog, pool, sinkVars, timerVars, statVars,
                 prodVars, consVars, closeVars, histVars>>

\* ------------------------------------------------------- byte buffer pools
\* A sync.Pool of buffers as the bag of their capacities; both pools start
\* empty and no caller holds a buffer.
BufCaps == 1..MaxBufCap
EmptyPool == [c \in BufCaps |-> 0]
NotHeld == [from |-> "none", cap |-> 0]
NoBuffers == [formatter |-> EmptyPool, par |-> EmptyPool, held |-> [p \in Producers |-> NotHeld]]

\* the number of buffers in a pool
Pooled(bag) ==
  Cardinality({x \in BufCaps \X (1..(MaxPooled + NProducers)) : x[2] <= bag[x[1]]})

\* Pool.Get(): one of the pooled buffers, or a new one from New (Grow(256))
\* when the pool gives none.  The buffers Get can return and what is left.
PoolGet(bag) ==
  {[cap |-> c, rest |-> [bag EXCEPT ![c] = @ - 1]] : c \in {d \in BufCaps : bag[d] > 0}}
    \cup (IF Pooled(bag) < MaxPooled THEN {[cap |-> NewBufCap, rest |-> bag]} ELSE {})

\* Pool.Put(buf)
PoolPut(bag, c) == [bag EXCEPT ![c] = @ + 1]

\* bytes.Buffer after buf.Reset() and n units written: the capacity stays when
\* the record fits and otherwise grows to at least n.
Grown(c, n) == IF n <= c THEN {c} ELSE n..MaxBufCap

\* A putBuffer that keeps every buffer.
PutBuffer_KeepsAll(bag, c) == PoolPut(bag, c)

\* formatter.putBuffer: a buffer whose capacity is above the ceiling is not
\* put back.
PutBuffer(bag, c) == IF c > PoolCeiling THEN bag ELSE PoolPut(bag, c)

\* TextFormatter.Format / FormatTo: buf := getBuffer(), the record of n units
\* is formatted into it.
FormatPooled(p, n) ==
  /\ bufs.held[p] = NotHeld
  /\ \E g \in PoolGet(bufs.formatter) : \E c \in Grown(g.cap, n) :
       bufs' = [bufs EXCEPT !.formatter = g.rest,
                            !.held[p] = [from |-> "formatter", cap |-> c]]
  /\ UNCHANGED <<cfg, pool, fanVars, rotVars, sinkVars, timerVars, statVars, prodVars, consVars,
                 closeVars, histVars>>

\* ... putBuffer(buf) when the formatter is done with the buffer.
FormatDone(p) ==
  /\ bufs.held[p].from = "formatter"
  /\ bufs' = [bufs EXCEPT !.formatter = PutBuffer(@, bufs.held[p].cap), !.held[p] = NotHeld]
  /\ UNCHANGED <<cfg, pool, fanVars, rotVars, sinkVars, timerVars, statVars, prodVars, consVars,
                 closeVars, histVars>>

\* consoleBase.write and SyncConsoleHandler.HandleLog after a failed TryLock:
\* pb := parBufPool.Get(), pb.buf.Reset(), the record is formatted into pb.buf.
ParallelFormat(p, n) ==
  /\ bufs.held[p] = NotHeld
  /\ \E g \in PoolGet(bufs.par) : \E c \in Grown(g.cap, n) :
       bufs' = [bufs EXCEPT !.par = g.rest, !.held[p] = [from |-> "par", cap |-> c]]
  /\ UNCHANGED <<cfg, pool, fanVars, rotVars, sinkVars, timerVars, statVars, prodVars, consVars,
                 closeVars, histVars>>

\* ... parBufPool.Put(pb) after the write.
ParallelDone(p) ==
  /\ bufs.held[p].from = "par"
  /\ bufs' = [bufs EXCEPT !.par = PoolPut(@, bufs.held[p].cap), !.held[p] = NotHeld]
  /\ UNCHANGED <<cfg, pool, fanVars, rotVars, sinkVars, timerVars, statVars, prodVars, consVars,
                 closeVars, histVars>>

\* The state after NewConsoleHandler / NewFileHandler with configuration c:
\* an empty queue, an open closed-channel, a stopped timer, zeroed statistics and
\* (asynchronous sinks) the consumer goroutine at the top of process().
InitSink(c) ==
  /\ cfg = c
  /\ queue = << >>
  /\ queueClosed = FALSE
  /\ closedSig = FALSE
  /\ mu = Free
  /\ inWrite = {}
  /\ out = << >>
  /\ fileCloses = 0
  /\ flushErr = FALSE
  /\ timerArmed = NewStoppedTimer.armed
  /\ batch = << >>
  /\ bufs = NoBuffers
  /\ timerC = NewStoppedTimer.c
  /\ expiry = [armed |-> 0, chan |-> 0]
  /\ processed = NewStats.processed
  /\ dropped = NewStats.dropped
  /\ blocked = NewStats.blocked
  /\ pc = [p \in Producers |-> "idle"]
  /\ calls = [p \in Producers |-> 0]
  /\ rets = [p \in Producers |-> << >>]
  /\ cpc = IF c.async THEN "select" ELSE "none"
  /\ centry = NoEntry
  /\ cmode = "main"
  /\ deadline = "unset"
  /\ clpc = [t \in Closers |-> "idle"]
  /\ closeRets = [t \in Closers |-> << >>]
  /\ closeLog = << >>
  /\ closeCalled = FALSE
  /\ shutdowns = 0
  /\ enqAtClose = {}
  /\ nenq = 0
  /\ enqd = {}
  /\ evicted = {}
  /\ sawFull = FALSE
  /\ failures = 0
  /\ overlap = FALSE
  /\ closeOverlap = FALSE
  /\ pool = {}
  /\ crashed = FALSE

\* A sink on its own: no fan-out handler is constructed.
InitWith(c) ==
  /\ InitSink(c)
  /\ mh = NewMultiHandler(<< >>)
  /\ fan = NoFanOut
  /\ InitFile(NoRotation, 0)

Init == \E c \in Configs : InitWith(c)

\* ------------------------------------------------------ shared operators
\* policy, ok := h.overflowPolicy[entry.Level]; if !ok { policy = DropNewest }
PolicyFor(level) ==
  IF level \in DOMAIN cfg.overflowPolicy THEN cfg.overflowPolicy[level] ELSE DropNewest

\* A send that never finds the queue full.
CanSend_Always(q) == TRUE

\* A non-blocking send on h.queue = make(chan *core.Entry, cfg.BufferSize)
\* succeeds exactly when the channel holds fewer than BufferSize records.
CanSend(q) == Len(q) < cfg.bufferSize

\* A receive that takes the newest queued record.
Dequeue_Newest(q) == [entry |-> q[Len(q)], rest |-> SubSeq(q, 1, Len(q) - 1)]

\* entry := <-h.queue takes the oldest queued record.
Dequeue(q) == [entry |-> Head(q), rest |-> Tail(q)]

\* A drop that is not counted.
IncrementDropped_Lost(d, level) == d

\* Stats.IncrementDropped has no counter for Fatal and Panic: it panics.
DropPanics(level) == level \notin DOMAIN dropped
IncrementDropped(d, level) == [d EXCEPT ![level] = @ + 1]

\* blockTimer.Stop(): reports whether the call stopped a running timer.  Since
\* Go 1.23 an expiry that nobody received yet counts as running and is discarded.
StopResult == timerArmed \/ (cfg.timerSync /\ timerC = 1)
ChanAfterStop == IF cfg.timerSync THEN 0 ELSE timerC

Running == ~crashed

\* CanRecycleEntry(): false on the asynchronous sinks, true on the synchronous.
CanRecycleEntry_Always == TRUE

CanRecycleEntry == ~cfg.async

\* Logger.log after l.handler.Handle(entry): when the call of producer p returned
\* nil in this step and the sink allows it, the record goes back to the pool.
LoggerRecycle(p) ==
  pool' = IF /\ Len(rets'[p]) > Len(rets[p])
             /\ rets'[p][Len(rets'[p])] = "nil"
             /\ CanRecycleEntry
          THEN pool \cup {RecId(p, calls'[p])}
          ELSE pool

\* return v from Handle / HandleLog
Return(p, v) ==
  /\ pc' = [pc EXCEPT ![p] = "idle"]
  /\ rets' = [rets EXCEPT ![p] = Append(@, v)]

\* an unrecovered panic in goroutine p ends the process
Panic(p) ==
  /\ pc' = [pc EXCEPT ![p] = "panicked"]
  /\ crashed' = TRUE
  /\ UNCHANGED rets

\* h.queue <- entry succeeded
Enqueue(id) ==
  /\ queue' = Append(queue, [id |-> id, ticket |-> nenq + 1])
  /\ nenq' = nenq + 1
  /\ enqd' = enqd \cup {id}

\* The callers parked in the Block branch's three-way select: none of its cases
\* was ready when they reached it.  A parked caller is woken by the channel
\* operation that makes one of its cases ready, and takes that case.
Parked == {p \in Producers : pc[p] = "blockWait"}

\* A receive that puts a parked sender's record into the freed slot and leaves
\* the sender waiting.
Recv_SenderStaysParked(f) ==
  IF Parked # {}
  THEN \E s \in Parked :
         /\ queue' = Append(Dequeue(queue).rest, [id |-> Cur(s), ticket |-> nenq + 1])
         /\ nenq' = nenq + 1
         /\ enqd' = enqd \cup {Cur(s)}
         /\ pc' = f
  ELSE /\ queue' = Dequeue(queue).rest
       /\ pc' = f
       /\ UNCHANGED <<nenq, enqd>>

\* <-h.queue on a non-empty queue, f being pc with the receiver's own move
\* applied: the oldest record leaves the queue; when senders are parked on the
\* (full) queue the record of one of them takes the free slot at once and that
\* sender goes on after its send.
Recv(f) ==
  IF Parked # {}
  THEN \E s \in Parked :
         /\ queue' = Append(Dequeue(queue).rest, [id |-> Cur(s), ticket |-> nenq + 1])
         /\ nenq' = nenq + 1
         /\ enqd' = enqd \cup {Cur(s)}
         /\ pc' = [f EXCEPT ![s] = "stop2"]
  ELSE /\ queue' = Dequeue(queue).rest
       /\ pc' = f
       /\ UNCHANGED <<nenq, enqd>>

\* ------------------------------------------------- AsyncConsoleHandler.Handle
\* Entry of Handle on an asynchronous sink: the policy lookup and the first,
\* non-blocking select of the policy's branch.
Handle(p) ==
  /\ Running /\ cfg.async
  /\ pc[p] = "idle" /\ calls[p] < cfg.calls[p]
  /\ calls' = [calls EXCEPT ![p] = @ + 1]
  /\ overlap' = (overlap \/ closeCalled)
  /\ UNCHANGED closeOverlap
  /\ LET id == RecId(p, calls[p] + 1)
         level == cfg.level[p]
         policy == PolicyFor(level)
     IN IF queueClosed
        THEN \* send on a closed channel
             /\ Panic(p)
             /\ UNCHANGED <<queue, nenq, enqd, sawFull, dropped>>
        ELSE IF CanSend(queue)
        THEN /\ Enqueue(id) /\ Return(p, "nil")
             /\ UNCHANGED <<sawFull, dropped, crashed>>
        ELSE /\ sawFull' = TRUE
             /\ UNCHANGED <<queue, nenq, enqd>>
             /\ IF policy = Block
                THEN /\ pc' = [pc EXCEPT ![p] = "stop1"]
                     /\ UNCHANGED <<rets, dropped, crashed>>
                ELSE IF policy = DropOldest
                THEN /\ pc' = [pc EXCEPT ![p] = "dropOldest"]
                     /\ UNCHANGED <<rets, dropped, crashed>>
                ELSE IF DropPanics(level)
                THEN Panic(p) /\ UNCHANGED dropped
                ELSE /\ dropped' = IncrementDropped(dropped, level)
                     /\ Return(p, "nil")
                     /\ UNCHANGED crashed
  /\ UNCHANGED <<cfg, bufs, fanVars, rotVars, queueClosed, closedSig, mu, inWrite, out, fileCloses, flushErr, timerVars,
                 processed, blocked, consVars, closeVars, evicted, failures>>
  /\ LoggerRecycle(p)

\* DropOldest, second select: remove the oldest queued record without blocking.
\* A receive on the closed, empty queue also succeeds (with a nil record).
DropOldestRemove(p) ==
  /\ Running /\ pc[p] = "dropOldest"
  /\ LET level == cfg.level[p]
         got == queue # << >> \/ queueClosed
         panics == got /\ DropPanics(level)
         f == [pc EXCEPT ![p] = IF panics THEN "panicked" ELSE "dropRetry"]
     IN /\ IF queue # << >>
           THEN /\ Recv(f)
                /\ evicted' = evicted \cup {Dequeue(queue).entry.id}
           ELSE /\ pc' = f
                /\ UNCHANGED <<queue, nenq, enqd, evicted>>
        /\ crashed' = panics
        /\ dropped' = IF got /\ ~panics THEN IncrementDropped(dropped, level) ELSE dropped
  /\ UNCHANGED <<cfg, bufs, fanVars, rotVars, pool, queueClosed, closedSig, mu, inWrite, out, fileCloses, flushErr, timerVars,
                 processed, blocked, calls, rets, consVars, closeVars,
                 sawFull, failures, overlap, closeOverlap>>

\* A retry that gives up at once: the incoming record is dropped.
DropOldestRetry_GivesUp(p) ==
  /\ Running /\ pc[p] = "dropRetry"
  /\ LET level == cfg.level[p]
     IN IF queueClosed \/ DropPanics(level)
        THEN Panic(p) /\ UNCHANGED <<queue, nenq, enqd, dropped>>
        ELSE /\ dropped' = IncrementDropped(dropped, level)
             /\ Return(p, "nil")
             /\ UNCHANGED <<queue, nenq, enqd, crashed>>
  /\ UNCHANGED <<cfg, bufs, fanVars, rotVars, queueClosed, closedSig, mu, inWrite, out, fileCloses, flushErr, timerVars,
                 processed, blocked, calls, consVars, closeVars,
                 evicted, sawFull, failures, overlap, closeOverlap>>
  /\ LoggerRecycle(p)

\* DropOldest, third select: try once more, else drop the incoming record.
DropOldestRetry(p) ==
  /\ Running /\ pc[p] = "dropRetry"
  /\ LET level == cfg.level[p]
     IN IF queueClosed
        THEN Panic(p) /\ UNCHANGED <<queue, nenq, enqd, dropped>>
        ELSE IF CanSend(queue)
        THEN Enqueue(Cur(p)) /\ Return(p, "nil") /\ UNCHANGED <<dropped, crashed>>
        ELSE IF DropPanics(level)
        THEN Panic(p) /\ UNCHANGED <<queue, nenq, enqd, dropped>>
        ELSE /\ dropped' = IncrementDropped(dropped, level)
             /\ Return(p, "nil")
             /\ UNCHANGED <<queue, nenq, enqd, crashed>>
  /\ UNCHANGED <<cfg, bufs, fanVars, rotVars, queueClosed, closedSig, mu, inWrite, out, fileCloses, flushErr, timerVars,
                 processed, blocked, calls, consVars, closeVars,
                 evicted, sawFull, failures, overlap, closeOverlap>>
  /\ LoggerRecycle(p)

\* if !h.blockTimer.Stop() { select { case <-h.blockTimer.C: default: } }, at
\* each of its three places in the Block branch: before the wait ("stop1"),
\* after a successful enqueue ("stop2") and after the close signal ("stop3").
\* When Stop reports false a pending expiry is taken out of the channel.
TimerStop(p) ==
  /\ Running /\ pc[p] \in {"stop1", "stop2", "stop3"}
  /\ timerArmed' = FALSE
  /\ timerC' = IF StopResult THEN ChanAfterStop ELSE 0
  /\ expiry' = [expiry EXCEPT !.armed = 0, !.chan = IF timerC' = 0 THEN 0 ELSE @]
  /\ IF pc[p] = "stop1" THEN pc' = [pc EXCEPT ![p] = "reset"] /\ UNCHANGED rets
     ELSE IF pc[p] = "stop2" THEN Return(p, "nil")
     ELSE pc' = [pc EXCEPT ![p] = "write"] /\ UNCHANGED rets
  /\ UNCHANGED <<cfg, bufs, fanVars, rotVars, sinkVars, statVars, calls, consVars, closeVars, histVars>>
  /\ LoggerRecycle(p)

\* h.blockTimer.Reset(h.blockTimeout)
TimerReset(p) ==
  /\ Running /\ pc[p] = "reset"
  /\ timerArmed' = TRUE
  /\ timerC' = ChanAfterStop
  /\ expiry' = [expiry EXCEPT !.armed = Cur(p), !.chan = IF timerC' = 0 THEN 0 ELSE @]
  /\ pc' = [pc EXCEPT ![p] = "blockSelect"]
  /\ UNCHANGED <<cfg, bufs, fanVars, rotVars, pool, sinkVars, statVars, calls, rets, consVars, closeVars, histVars>>

\* The block timeout elapses: the runtime sends one value on blockTimer.C.  A
\* caller parked in the select receives it at once (case <-h.blockTimer.C:
\* count the call as blocked, then write on this thread); with nobody parked
\* the value stays in the channel, which has room for one.
TimerFire ==
  /\ Running /\ timerArmed
  /\ timerArmed' = FALSE
  /\ IF Parked # {}
     THEN \E s \in Parked :
            /\ pc' = [pc EXCEPT ![s] = "write"]
            /\ blocked' = blocked + 1
            /\ expiry' = [expiry EXCEPT !.armed = 0]
            /\ UNCHANGED timerC
     ELSE /\ timerC' = 1
          /\ expiry' = [expiry EXCEPT !.armed = 0,
                                      !.chan = IF timerC = 1 THEN @ ELSE expiry.armed]
          /\ UNCHANGED <<pc, blocked>>
  /\ UNCHANGED <<cfg, bufs, fanVars, rotVars, pool, sinkVars, processed, dropped, calls, rets, consVars, closeVars, histVars>>

\* The three-way select of the Block branch when the caller reaches it: one of
\* the ready cases is taken.  Case h.queue <- entry (a send on a closed queue
\* panics).
BlockEnqueue(p) ==
  /\ Running /\ pc[p] = "blockSelect"
  /\ IF queueClosed
     THEN Panic(p) /\ UNCHANGED <<queue, nenq, enqd>>
     ELSE /\ CanSend(queue)
          /\ Enqueue(Cur(p))
          /\ pc' = [pc EXCEPT ![p] = "stop2"]
          /\ UNCHANGED <<rets, crashed>>
  /\ UNCHANGED <<cfg, bufs, fanVars, rotVars, pool, queueClosed, closedSig, mu, inWrite, out, fileCloses, flushErr, timerVars, statVars,
                 calls, consVars, closeVars, evicted, sawFull, failures, overlap, closeOverlap>>

\* A timeout that gives the record up instead of writing it.
BlockTimeout_Drops(p) ==
  /\ Running /\ pc[p] = "blockSelect"
  /\ timerC = 1
  /\ timerC' = 0
  /\ expiry' = [expiry EXCEPT !.chan = 0]
  /\ blocked' = blocked + 1
  /\ Return(p, "nil")
  /\ UNCHANGED <<cfg, bufs, fanVars, rotVars, sinkVars, timerArmed, processed, dropped, calls,
                 consVars, closeVars, histVars>>
  /\ LoggerRecycle(p)

\* case <-h.blockTimer.C: count the call as blocked, then write on this thread.
BlockTimeout(p) ==
  /\ Running /\ pc[p] = "blockSelect"
  /\ timerC = 1
  /\ timerC' = 0
  /\ expiry' = [expiry EXCEPT !.chan = 0]
  /\ blocked' = blocked + 1
  /\ pc' = [pc EXCEPT ![p] = "write"]
  /\ UNCHANGED <<cfg, bufs, fanVars, rotVars, pool, sinkVars, timerArmed, processed, dropped, calls, rets,
                 consVars, closeVars, histVars>>

\* case <-h.closed: stop the timer, then write on this thread.
BlockClosed(p) ==
  /\ Running /\ pc[p] = "blockSelect"
  /\ closedSig
  /\ pc' = [pc EXCEPT ![p] = "stop3"]
  /\ UNCHANGED <<cfg, bufs, fanVars, rotVars, pool, sinkVars, timerVars, statVars, calls, rets,
                 consVars, closeVars, histVars>>

\* No case of the select is ready: the caller parks.
BlockPark(p) ==
  /\ Running /\ pc[p] = "blockSelect"
  /\ ~queueClosed /\ ~CanSend(queue)
  /\ timerC = 0
  /\ ~closedSig
  /\ pc' = [pc EXCEPT ![p] = "blockWait"]
  /\ UNCHANGED <<cfg, bufs, fanVars, rotVars, pool, sinkVars, timerVars, statVars, calls, rets,
                 consVars, closeVars, histVars>>

\* ------------------------------------------- consoleBase.write / fileBase.write
\* A caller thread must hold mu around the destination write unless the
\* console destination is concurrent-safe; the file sink always locks.
NeedsLock == cfg.file \/ ~cfg.concurrentSafe

\* Entry of a synchronous sink's Handle / HandleLog: straight into the write.
SyncHandle(p) ==
  /\ Running /\ ~cfg.async
  /\ pc[p] = "idle" /\ calls[p] < cfg.calls[p]
  /\ calls' = [calls EXCEPT ![p] = @ + 1]
  /\ overlap' = (overlap \/ closeCalled)
  /\ UNCHANGED closeOverlap
  /\ pc' = [pc EXCEPT ![p] = "write"]
  /\ UNCHANGED <<cfg, bufs, fanVars, rotVars, pool, sinkVars, timerVars, statVars, rets, consVars, closeVars,
                 nenq, enqd, evicted, sawFull, failures, crashed>>

\* The uncontended path: TryLock succeeded, the record is formatted into the
\* sink's own buffer and the destination write starts under mu.
WriteTryLock(p) ==
  /\ Running /\ pc[p] = "write"
  /\ ~cfg.file /\ cfg.fmt = "buffer"
  /\ mu = Free
  /\ mu' = p
  /\ inWrite' = inWrite \cup {p}
  /\ pc' = [pc EXCEPT ![p] = "inWrite"]
  /\ UNCHANGED <<cfg, bufs, fanVars, rotVars, pool, queue, queueClosed, closedSig, out, fileCloses, flushErr, timerVars, statVars,
                 calls, rets, consVars, closeVars, histVars>>

\* A fallback write that never takes the lock.
WriteContended_NoLock(p) ==
  /\ Running /\ pc[p] = "write"
  /\ (~cfg.file /\ cfg.fmt = "buffer") => mu # Free
  /\ inWrite' = inWrite \cup {p}
  /\ pc' = [pc EXCEPT ![p] = "inWrite"]
  /\ UNCHANGED <<cfg, bufs, fanVars, rotVars, pool, queue, queueClosed, closedSig, mu, out, fileCloses, flushErr, timerVars, statVars,
                 calls, rets, consVars, closeVars, histVars>>

\* TryLock failed (pool fallback), or the formatter is not a BufferFormatter,
\* or the sink is a file sink: the write goes straight to a concurrent-safe
\* destination, otherwise the thread queues for mu.
WriteContended(p) ==
  /\ Running /\ pc[p] = "write"
  /\ (~cfg.file /\ cfg.fmt = "buffer") => mu # Free
  /\ IF NeedsLock
     THEN pc' = [pc EXCEPT ![p] = "lock"] /\ UNCHANGED inWrite
     ELSE /\ inWrite' = inWrite \cup {p}
          /\ pc' = [pc EXCEPT ![p] = "inWrite"]
  /\ UNCHANGED <<cfg, bufs, fanVars, rotVars, pool, queue, queueClosed, closedSig, mu, out, fileCloses, flushErr, timerVars, statVars,
                 calls, rets, consVars, closeVars, histVars>>

\* b.mu.Lock() returns; the destination write starts.
WriteLock(p) ==
  /\ Running /\ pc[p] = "lock"
  /\ mu = Free
  /\ mu' = p
  /\ inWrite' = inWrite \cup {p}
  /\ pc' = [pc EXCEPT ![p] = "inWrite"]
  /\ UNCHANGED <<cfg, bufs, fanVars, rotVars, pool, queue, queueClosed, closedSig, out, fileCloses, flushErr, timerVars, statVars,
                 calls, rets, consVars, closeVars, histVars>>

\* A write that returns without releasing mu.
WriteReturn_KeepsLock(p, ok) ==
  /\ Running /\ pc[p] = "inWrite"
  /\ ok \/ failures < MaxFailures \/ fileCloses > 0
  /\ inWrite' = inWrite \ {p}
  /\ out' = IF ok THEN Append(out, [id |-> Cur(p), by |-> p, ticket |-> 0, late |-> fileCloses > 0]) ELSE out
  /\ failures' = IF ok THEN failures ELSE failures + 1
  /\ processed' = IF ok THEN processed + 1 ELSE processed
  /\ Return(p, IF ok THEN "nil" ELSE "err")
  /\ UNCHANGED <<cfg, bufs, fanVars, rotVars, queue, queueClosed, closedSig, mu, fileCloses, flushErr, timerVars, dropped, blocked,
                 calls, consVars, closeVars, nenq, enqd, evicted, sawFull, overlap, closeOverlap, crashed>>
  /\ LoggerRecycle(p)

\* A write that counts the record as processed whether or not it was written.
WriteReturn_CountsFailure(p, ok) ==
  /\ Running /\ pc[p] = "inWrite"
  /\ ok \/ failures < MaxFailures \/ fileCloses > 0
  /\ inWrite' = inWrite \ {p}
  /\ mu' = IF mu = p THEN Free ELSE mu
  /\ out' = IF ok THEN Append(out, [id |-> Cur(p), by |-> p, ticket |-> 0, late |-> fileCloses > 0]) ELSE out
  /\ failures' = IF ok THEN failures ELSE failures + 1
  /\ processed' = processed + 1
  /\ Return(p, IF ok THEN "nil" ELSE "err")
  /\ UNCHANGED <<cfg, bufs, fanVars, rotVars, queue, queueClosed, closedSig, fileCloses, flushErr, timerVars, dropped, blocked,
                 calls, consVars, closeVars, nenq, enqd, evicted, sawFull, overlap, closeOverlap, crashed>>
  /\ LoggerRecycle(p)

\* The destination write returns (ok = it accepted the bytes; a write may fail
\* MaxFailures times, and whenever the file is already closed), mu, if held, is
\* released, the record is counted as processed if the write succeeded and the
\* write's error is returned.
WriteReturn(p, ok) ==
  /\ Running /\ pc[p] = "inWrite"
  /\ ok \/ failures < MaxFailures \/ fileCloses > 0
  /\ inWrite' = inWrite \ {p}
  /\ mu' = IF mu = p THEN Free ELSE mu
  /\ out' = IF ok THEN Append(out, [id |-> Cur(p), by |-> p, ticket |-> 0, late |-> fileCloses > 0]) ELSE out
  /\ failures' = IF ok THEN failures ELSE failures + 1
  /\ processed' = IF ok THEN processed + 1 ELSE processed
  /\ Return(p, IF ok THEN "nil" ELSE "err")
  /\ UNCHANGED <<cfg, bufs, fanVars, rotVars, queue, queueClosed, closedSig, fileCloses, flushErr, timerVars, dropped, blocked,
                 calls, consVars, closeVars, nenq, enqd, evicted, sawFull, overlap, closeOverlap, crashed>>
  /\ LoggerRecycle(p)

\* ------------------------------------------------ AsyncConsoleHandler.process
\* Top of the loop: select { case entry := <-h.queue ... case <-h.closed ... }.
ProcessReceive ==
  /\ Running /\ cpc = "select"
  /\ queue # << >>
  /\ centry' = Dequeue(queue).entry
  /\ Recv(pc)
  /\ cpc' = "cwrite"
  /\ cmode' = "batch"
  /\ UNCHANGED <<cfg, bufs, fanVars, rotVars, pool, queueClosed, closedSig, mu, inWrite, out, fileCloses, flushErr, timerVars, statVars,
                 calls, rets, deadline, batch, closeVars, evicted, sawFull, failures, overlap, closeOverlap, crashed>>

\* case <-h.closed: deadline := time.After(h.drainTimeout), enter the drain loop.
ProcessClosed ==
  /\ Running /\ cpc = "select"
  /\ closedSig
  /\ cpc' = "drain"
  /\ deadline' = "running"
  /\ UNCHANGED <<cfg, bufs, fanVars, rotVars, pool, sinkVars, timerVars, statVars, prodVars, centry, cmode, batch,
                 closeVars, histVars>>

\* batchDrain: take another queued record without blocking, else back to the top.
ProcessBatch ==
  /\ Running /\ cpc = "batch"
  /\ IF queue # << >>
     THEN /\ centry' = Dequeue(queue).entry
          /\ Recv(pc)
          /\ cpc' = "cwrite"
     ELSE /\ cpc' = "select"
          /\ UNCHANGED <<centry, queue, pc, nenq, enqd>>
  /\ UNCHANGED <<cfg, bufs, fanVars, rotVars, pool, queueClosed, closedSig, mu, inWrite, out, fileCloses, flushErr, timerVars, statVars,
                 calls, rets, cmode, deadline, batch, closeVars, evicted, sawFull, failures, overlap, closeOverlap, crashed>>

\* drainLoop, case entry := <-h.queue
ProcessDrain ==
  /\ Running /\ cpc = "drain"
  /\ queue # << >>
  /\ centry' = Dequeue(queue).entry
  /\ Recv(pc)
  /\ cpc' = "cwrite"
  /\ cmode' = "drain"
  /\ UNCHANGED <<cfg, bufs, fanVars, rotVars, pool, queueClosed, closedSig, mu, inWrite, out, fileCloses, flushErr, timerVars, statVars,
                 calls, rets, deadline, batch, closeVars, evicted, sawFull, failures, overlap, closeOverlap, crashed>>

\* A drain loop that may give up while records are still queued.
ProcessDrainEnd_Early ==
  /\ Running /\ cpc = "drain"
  /\ cpc' = "done"
  /\ UNCHANGED <<cfg, bufs, fanVars, rotVars, pool, sinkVars, timerVars, statVars, prodVars, centry, cmode, deadline, batch,
                 closeVars, histVars>>

\* drainLoop, case <-deadline (the deadline has elapsed) and default (the queue
\* is empty): leave the loop and return; the deferred wg.Done() runs.
ProcessDrainEnd ==
  /\ Running /\ cpc = "drain"
  /\ deadline = "elapsed" \/ queue = << >>
  /\ cpc' = "done"
  /\ UNCHANGED <<cfg, bufs, fanVars, rotVars, pool, sinkVars, timerVars, statVars, prodVars, centry, cmode, deadline, batch,
                 closeVars, histVars>>

\* The drain timeout elapses while the consumer is draining.
DeadlineFire ==
  /\ Running /\ deadline = "running" /\ cpc \notin {"done", "dead"}
  /\ deadline' = "elapsed"
  /\ UNCHANGED <<cfg, bufs, fanVars, rotVars, pool, sinkVars, timerVars, statVars, prodVars, cpc, centry, cmode, batch,
                 closeVars, histVars>>

\* processWrite: b.mu.Lock() (or, without a BufferFormatter, write()'s lock or
\* direct write), then the destination write starts.
ProcessWriteLock ==
  /\ Running /\ cpc = "cwrite"
  /\ IF cfg.file \/ cfg.fmt = "buffer" \/ ~cfg.concurrentSafe
     THEN mu = Free /\ mu' = Consumer
     ELSE UNCHANGED mu
  /\ inWrite' = inWrite \cup {Consumer}
  /\ cpc' = "cInWrite"
  /\ UNCHANGED <<cfg, bufs, fanVars, rotVars, pool, queue, queueClosed, closedSig, out, fileCloses, flushErr, timerVars, statVars,
                 prodVars, centry, cmode, deadline, batch, closeVars, histVars>>

\* A consumer that goes on after a failed write.
ProcessWriteReturn_GoesOn(ok) ==
  /\ Running /\ cpc = "cInWrite"
  /\ ok \/ failures < MaxFailures
  /\ inWrite' = inWrite \ {Consumer}
  /\ mu' = IF mu = Consumer THEN Free ELSE mu
  /\ out' = IF ok THEN Append(out, [id |-> centry.id, by |-> Consumer, ticket |-> centry.ticket, late |-> fileCloses > 0]) ELSE out
  /\ failures' = IF ok THEN failures ELSE failures + 1
  /\ processed' = IF ok THEN processed + 1 ELSE processed
  /\ pool' = IF ok THEN pool \cup {centry.id} ELSE pool
  /\ centry' = IF ok THEN NoEntry ELSE centry
  /\ cpc' = cmode
  /\ UNCHANGED <<cfg, bufs, fanVars, rotVars, queue, queueClosed, closedSig, fileCloses, flushErr, timerVars, dropped, blocked,
                 prodVars, cmode, deadline, batch, closeVars,
                 nenq, enqd, evicted, sawFull, overlap, closeOverlap, crashed>>

\* The consumer's destination write returns.  On an error process() returns
\* (the consumer is gone); otherwise the record is counted and recycled and the
\* loop the record was taken in goes on.
ProcessWriteReturn(ok) ==
  /\ Running /\ cpc = "cInWrite"
  /\ ok \/ failures < MaxFailures
  /\ inWrite' = inWrite \ {Consumer}
  /\ mu' = IF mu = Consumer THEN Free ELSE mu
  /\ out' = IF ok THEN Append(out, [id |-> centry.id, by |-> Consumer, ticket |-> centry.ticket, late |-> fileCloses > 0]) ELSE out
  /\ failures' = IF ok THEN failures ELSE failures + 1
  /\ processed' = IF ok THEN processed + 1 ELSE processed
  /\ pool' = IF ok THEN pool \cup {centry.id} ELSE pool
  /\ centry' = IF ok THEN NoEntry ELSE centry
  /\ cpc' = IF ok THEN cmode ELSE "dead"
  /\ UNCHANGED <<cfg, bufs, fanVars, rotVars, queue, queueClosed, closedSig, fileCloses, flushErr, timerVars, dropped, blocked,
                 prodVars, cmode, deadline, batch, closeVars,
                 nenq, enqd, evicted, sawFull, overlap, closeOverlap, crashed>>

\* ----------------------------------------------------------------- Close
CloseReturn(c, v) ==
  /\ clpc' = [clpc EXCEPT ![c] = "idle"]
  /\ closeRets' = [closeRets EXCEPT ![c] = Append(@, v)]
  /\ closeLog' = Append(closeLog, v)

\* A Close without the already-closed check.
Close_NoCheck(c) ==
  /\ Running /\ clpc[c] = "idle" /\ Len(closeRets[c]) < MaxCloses
  /\ c - NProducers <= cfg.closers
  /\ closeCalled' = TRUE
  /\ enqAtClose' = IF closeCalled THEN enqAtClose ELSE enqd \ evicted
  /\ overlap' = (overlap \/ (~closeCalled /\ \E p \in Producers : pc[p] # "idle"))
  /\ closeOverlap' = (closeOverlap \/ \E d \in Closers \ {c} : clpc[d] # "idle")
  /\ clpc' = [clpc EXCEPT ![c] = "closeSig"]
  /\ shutdowns' = shutdowns + 1
  /\ UNCHANGED <<closeRets, closeLog>>
  /\ UNCHANGED <<cfg, bufs, fanVars, rotVars, pool, sinkVars, timerVars, statVars, prodVars, consVars,
                 nenq, enqd, evicted, sawFull, failures, crashed>>

\* Entry of Close: select { case <-h.closed: return nil; default: }.
Close(c) ==
  /\ Running /\ clpc[c] = "idle" /\ Len(closeRets[c]) < MaxCloses
  /\ c - NProducers <= cfg.closers
  /\ closeCalled' = TRUE
  /\ enqAtClose' = IF closeCalled THEN enqAtClose ELSE enqd \ evicted
  /\ overlap' = (overlap \/ (~closeCalled /\ \E p \in Producers : pc[p] # "idle"))
  /\ closeOverlap' = (closeOverlap \/ \E d \in Closers \ {c} : clpc[d] # "idle")
  /\ IF closedSig
     THEN CloseReturn(c, "nil") /\ UNCHANGED shutdowns
     ELSE /\ clpc' = [clpc EXCEPT ![c] = "closeSig"]
          /\ shutdowns' = shutdowns + 1
          /\ UNCHANGED <<closeRets, closeLog>>
  /\ UNCHANGED <<cfg, bufs, fanVars, rotVars, pool, sinkVars, timerVars, statVars, prodVars, consVars,
                 nenq, enqd, evicted, sawFull, failures, crashed>>

\* A close signal that wakes nobody.
CloseSignal_NoWake(c) ==
  /\ Running /\ clpc[c] = "closeSig"
  /\ IF closedSig
     THEN /\ clpc' = [clpc EXCEPT ![c] = "panicked"]
          /\ crashed' = TRUE
          /\ UNCHANGED <<closedSig, closeRets, closeLog, pc>>
     ELSE /\ closedSig' = TRUE
          /\ UNCHANGED pc
          /\ UNCHANGED crashed
          /\ IF cfg.async THEN clpc' = [clpc EXCEPT ![c] = "wgWait"] /\ UNCHANGED <<closeRets, closeLog>>
             ELSE IF cfg.file THEN clpc' = [clpc EXCEPT ![c] = "closeFile"] /\ UNCHANGED <<closeRets, closeLog>>
             ELSE CloseReturn(c, "nil")
  /\ UNCHANGED <<cfg, bufs, fanVars, rotVars, pool, queue, queueClosed, mu, inWrite, out, fileCloses, flushErr, timerVars, statVars,
                 calls, rets, consVars, closeCalled, shutdowns, enqAtClose,
                 nenq, enqd, evicted, sawFull, failures, overlap, closeOverlap>>

\* close(h.closed); closing a closed channel panics.  The close wakes every
\* caller parked in the Block select with case <-h.closed.  The asynchronous sink
\* then waits for the consumer, the synchronous one is done (console) or
\* closes its file.
CloseSignal(c) ==
  /\ Running /\ clpc[c] = "closeSig"
  /\ IF closedSig
     THEN /\ clpc' = [clpc EXCEPT ![c] = "panicked"]
          /\ crashed' = TRUE
          /\ UNCHANGED <<closedSig, closeRets, closeLog, pc>>
     ELSE /\ closedSig' = TRUE
          /\ pc' = [p \in Producers |-> IF p \in Parked THEN "stop3" ELSE pc[p]]
          /\ UNCHANGED crashed
          /\ IF cfg.async THEN clpc' = [clpc EXCEPT ![c] = "wgWait"] /\ UNCHANGED <<closeRets, closeLog>>
             ELSE IF cfg.file THEN clpc' = [clpc EXCEPT ![c] = "closeFile"] /\ UNCHANGED <<closeRets, closeLog>>
             ELSE CloseReturn(c, "nil")
  /\ UNCHANGED <<cfg, bufs, fanVars, rotVars, pool, queue, queueClosed, mu, inWrite, out, fileCloses, flushErr, timerVars, statVars,
                 calls, rets, consVars, closeCalled, shutdowns, enqAtClose,
                 nenq, enqd, evicted, sawFull, failures, overlap, closeOverlap>>

\* A wait that only a consumer that finished its drain releases.
CloseWait_DrainedOnly(c) ==
  /\ Running /\ clpc[c] = "wgWait"
  /\ cpc = "done"
  /\ clpc' = [clpc EXCEPT ![c] = "closeQueue"]
  /\ UNCHANGED <<cfg, bufs, fanVars, rotVars, pool, sinkVars, timerVars, statVars, prodVars, consVars,
                 closeRets, closeLog, closeCalled, shutdowns, enqAtClose, histVars>>

\* h.wg.Wait(): process() runs defer h.wg.Done(), so the wait ends when the
\* consumer has returned, after its drain or after a failed write.
CloseWait(c) ==
  /\ Running /\ clpc[c] = "wgWait"
  /\ cpc \in {"done", "dead"}
  /\ clpc' = [clpc EXCEPT ![c] = "closeQueue"]
  /\ UNCHANGED <<cfg, bufs, fanVars, rotVars, pool, sinkVars, timerVars, statVars, prodVars, consVars,
                 closeRets, closeLog, closeCalled, shutdowns, enqAtClose, histVars>>

\* h.mu.Lock(); close(h.queue); h.mu.Unlock()
CloseQueue(c) ==
  /\ Running /\ clpc[c] = "closeQueue"
  /\ mu = Free
  /\ IF queueClosed
     THEN /\ clpc' = [clpc EXCEPT ![c] = "panicked"]
          /\ crashed' = TRUE
          /\ UNCHANGED <<queueClosed, closeRets, closeLog>>
     ELSE /\ queueClosed' = TRUE
          /\ UNCHANGED crashed
          /\ IF cfg.file THEN clpc' = [clpc EXCEPT ![c] = "closeFile"] /\ UNCHANGED <<closeRets, closeLog>>
             ELSE CloseReturn(c, "nil")
  /\ UNCHANGED <<cfg, bufs, fanVars, rotVars, pool, queue, closedSig, mu, inWrite, out, fileCloses, flushErr, timerVars, statVars,
                 prodVars, consVars, closeCalled, shutdowns, enqAtClose,
                 nenq, enqd, evicted, sawFull, failures, overlap, closeOverlap>>

\* fileBase.closeFile under mu: Flush, Sync, Close.  The file is closed
\* whether or not the flush or the sync failed; their error is returned.
CloseFile(c, ok) ==
  /\ Running /\ clpc[c] = "closeFile"
  /\ mu = Free
  /\ ok \/ failures < MaxFailures
  /\ fileCloses' = fileCloses + 1
  /\ flushErr' = (flushErr \/ ~ok)
  /\ failures' = IF ok THEN failures ELSE failures + 1
  /\ CloseReturn(c, IF ok THEN "nil" ELSE "err")
  /\ UNCHANGED <<cfg, bufs, fanVars, rotVars, pool, queue, queueClosed, closedSig, mu, inWrite, out, timerVars, statVars,
                 prodVars, consVars, closeCalled, shutdowns, enqAtClose,
                 nenq, enqd, evicted, sawFull, overlap, closeOverlap, crashed>>

\* ------------------------------------------------------------ specification
ProducerStep(p) ==
  \/ Handle(p)
  \/ DropOldestRemove(p)
  \/ DropOldestRetry(p)
  \/ TimerStop(p)
  \/ TimerReset(p)
  \/ BlockEnqueue(p)
  \/ BlockTimeout(p)
  \/ BlockClosed(p)
  \/ BlockPark(p)
  \/ SyncHandle(p)
  \/ WriteTryLock(p)
  \/ WriteContended(p)
  \/ WriteLock(p)

ConsumerStep ==
  \/ ProcessReceive
  \/ ProcessClosed
  \/ ProcessBatch
  \/ ProcessDrain
  \/ ProcessDrainEnd
  \/ ProcessWriteLock

CloserStep(c) ==
  \/ Close(c)
  \/ CloseSignal(c)
  \/ CloseWait(c)
  \/ CloseQueue(c)

Next ==
  \/ \E p \in Producers : ProducerStep(p)
  \/ \E p \in Producers, ok \in BOOLEAN : WriteReturn(p, ok)
  \/ ConsumerStep
  \/ \E ok \in BOOLEAN : ProcessWriteReturn(ok)
  \/ TimerFire
  \/ DeadlineFire
  \/ \E c \in Closers : CloserStep(c)
  \/ \E c \in Closers, ok \in BOOLEAN : CloseFile(c, ok)

Spec == Init /\ [][Next]_vars

\* ---------------------------------- Block-policy sinks that are never closed
\* The steps of a Handle call whose level resolves to Block, with a
\* destination that never fails.
BlockProducerStep(p) ==
  \/ Handle(p)
  \/ TimerStop(p)
  \/ TimerReset(p)
  \/ BlockEnqueue(p)
  \/ BlockTimeout(p)
  \/ BlockPark(p)
  \/ WriteTryLock(p)
  \/ WriteContended(p)
  \/ WriteLock(p)
  \/ WriteReturn(p, TRUE)

\* The consumer's steps while the sink is open.
BlockConsumerStep ==
  \/ ProcessReceive
  \/ ProcessBatch
  \/ ProcessWriteLock
  \/ ProcessWriteReturn(TRUE)

InitBlock == \E c \in BlockConfigs : InitWith(c)

NextBlock ==
  \/ \E p \in Producers : BlockProducerStep(p)
  \/ BlockConsumerStep
  \/ TimerFire

\* Every goroutine that can take a step eventually takes one and a running
\* timer eventually fires: the destination is slow, not stuck.
SpecBlock ==
  /\ InitBlock /\ [][NextBlock]_vars
  /\ \A p \in Producers : WF_vars(BlockProducerStep(p))
  /\ WF_vars(BlockConsumerStep)
  /\ WF_vars(TimerFire)

\* The same sinks with a consumer that may stall for good: only the callers and
\* the timer are certain to make progress.
SpecStall ==
  /\ InitBlock /\ [][NextBlock]_vars
  /\ \A p \in Producers : WF_vars(BlockProducerStep(p))
  /\ WF_vars(TimerFire)

\* ----------------------------------- Block-policy sinks that are closed
\* The consumer's steps, shutdown draining included, with a destination that
\* never fails.
WakeConsumerStep ==
  \/ BlockConsumerStep
  \/ ProcessClosed
  \/ ProcessDrain
  \/ ProcessDrainEnd

\* The steps of a Handle call on such a sink.
WakeProducerStep(p) ==
  \/ BlockProducerStep(p)
  \/ BlockClosed(p)

InitWake == \E c \in WakeConfigs : InitWith(c)

NextWake ==
  \/ \E p \in Producers : WakeProducerStep(p)
  \/ WakeConsumerStep
  \/ TimerFire
  \/ DeadlineFire
  \/ \E c \in Closers : CloserStep(c)

\* Every caller, the consumer and the closer keep running; the consumer may be
\* arbitrarily slow but every goroutine that can take a step eventually does.
SpecWake ==
  /\ InitWake /\ [][NextWake]_vars
  /\ \A p \in Producers : WF_vars(WakeProducerStep(p))
  /\ WF_vars(WakeConsumerStep)
  /\ \A c \in Closers : WF_vars(CloserStep(c))

\* ------------------------------------------------- shutdown under load
\* Asynchronous sinks on the smallest queue with one closer: a console sink
\* with Block producers only and a file sink with a Block producer next to a
\* DropOldest producer; any write may fail.
ShutdownLevels ==
  [f \in BOOLEAN |->
     IF f THEN [p \in Producers |-> IF p = 1 THEN ErrorLevel ELSE WarnLevel]
     ELSE AllAt(ErrorLevel)]

ShutdownConfigs ==
  {Config(TRUE, f, "buffer", FALSE, 1, ShutdownLevels[f], FALSE, Workload, 1) : f \in BOOLEAN}

\* The steps of a Handle call on an asynchronous sink, its fallback write included.
ShutdownProducerStep(p) ==
  \/ Handle(p)
  \/ DropOldestRemove(p)
  \/ DropOldestRetry(p)
  \/ TimerStop(p)
  \/ TimerReset(p)
  \/ BlockEnqueue(p)
  \/ BlockTimeout(p)
  \/ BlockClosed(p)
  \/ BlockPark(p)
  \/ WriteTryLock(p)
  \/ WriteContended(p)
  \/ WriteLock(p)
  \/ \E ok \in BOOLEAN : WriteReturn(p, ok)

\* process(), every destination write returning with or without an error.
ShutdownConsumerStep ==
  \/ ConsumerStep
  \/ \E ok \in BOOLEAN : ProcessWriteReturn(ok)

\* Close, closeFile included.
ShutdownCloserStep(c) ==
  \/ CloserStep(c)
  \/ \E ok \in BOOLEAN : CloseFile(c, ok)

InitShutdown == \E c \in ShutdownConfigs : InitWith(c)

NextShutdown ==
  \/ \E p \in Producers : ShutdownProducerStep(p)
  \/ ShutdownConsumerStep
  \/ TimerFire
  \/ DeadlineFire
  \/ \E c \in Closers : ShutdownCloserStep(c)

\* Fair scheduling of the goroutines and destination writes that terminate: a
\* goroutine that can take a step eventually takes one.  Neither timer is
\* required to fire.
SpecShutdown ==
  /\ InitShutdown /\ [][NextShutdown]_vars
  /\ \A p \in Producers : WF_vars(ShutdownProducerStep(p))
  /\ WF_vars(ShutdownConsumerStep)
  /\ \A c \in Closers : WF_vars(ShutdownCloserStep(c))

\* ------------------------------------------ handler.ConsoleHandler, batching
\* ConsoleHandler.process with a BufferFormatter, case entry := <-h.queue:
\* batchBuf.Reset(), the record is formatted into batchBuf and put back into
\* the record pool, batchCount := 1.
BatchReceive ==
  /\ Running /\ cpc = "select"
  /\ queue # << >>
  /\ batch' = <<Dequeue(queue).entry>>
  /\ pool' = pool \cup {Dequeue(queue).entry.id}
  /\ Recv(pc)
  /\ cpc' = "accumulate"
  /\ cmode' = "batch"
  /\ UNCHANGED <<cfg, bufs, fanVars, rotVars, queueClosed, closedSig, mu, inWrite, out, fileCloses, flushErr, timerVars,
                 statVars, calls, rets, centry, deadline, closeVars,
                 evicted, sawFull, failures, overlap, closeOverlap, crashed>>

\* batchDrain: every record already queued is formatted into batchBuf and put
\* back; on the empty queue the loop ends and the batch is counted,
\* h.stats.AddProcessed(uint64(batchCount)), before it is written.
BatchDrain ==
  /\ Running /\ cpc = "accumulate"
  /\ IF queue # << >>
     THEN /\ batch' = Append(batch, Dequeue(queue).entry)
          /\ pool' = pool \cup {Dequeue(queue).entry.id}
          /\ Recv(pc)
          /\ UNCHANGED <<cpc, processed>>
     ELSE /\ processed' = processed + Len(batch)
          /\ cpc' = "batchWrite"
          /\ UNCHANGED <<batch, pool, queue, pc, nenq, enqd>>
  /\ UNCHANGED <<cfg, bufs, fanVars, rotVars, queueClosed, closedSig, mu, inWrite, out, fileCloses, flushErr, timerVars,
                 dropped, blocked, calls, rets, centry, cmode, deadline, closeVars,
                 evicted, sawFull, failures, overlap, closeOverlap, crashed>>

\* h.writeMu.Lock(); h.writer.Write(batchBuf.Bytes()); h.writeMu.Unlock(): one
\* Write for the batch.  On an error process() returns.
BatchWrite(ok) ==
  /\ Running /\ cpc = "batchWrite"
  /\ ok \/ failures < MaxFailures
  /\ out' = IF ok
            THEN out \o [i \in 1..Len(batch) |->
                          [id |-> batch[i].id, by |-> Consumer, ticket |-> batch[i].ticket,
                           late |-> fileCloses > 0]]
            ELSE out
  /\ failures' = IF ok THEN failures ELSE failures + 1
  /\ cpc' = IF ok THEN "select" ELSE "dead"
  /\ UNCHANGED <<cfg, bufs, fanVars, rotVars, pool, queue, queueClosed, closedSig, mu, inWrite, fileCloses, flushErr,
                 timerVars, statVars, prodVars, centry, cmode, deadline, batch, closeVars,
                 nenq, enqd, evicted, sawFull, overlap, closeOverlap, crashed>>

\* Asynchronous console sinks of package handler with the default text
\* formatter; the producers' levels resolve to DropNewest or DropOldest.
BatchConfigs ==
  {Config(TRUE, FALSE, "buffer", FALSE, n, lv, FALSE, Workload, 1) :
     n \in 1..MaxBuf, lv \in [Producers -> {InfoLevel, WarnLevel}]}

InitBatch == \E c \in BatchConfigs : InitWith(c)

\* Handle and Close are those of the asynchronous console sink; the consumer
\* batches until the close signal and then drains record by record.
NextBatch ==
  \/ \E p \in Producers : Handle(p) \/ DropOldestRemove(p) \/ DropOldestRetry(p)
  \/ BatchReceive
  \/ BatchDrain
  \/ \E ok \in BOOLEAN : BatchWrite(ok)
  \/ ProcessClosed
  \/ ProcessDrain
  \/ ProcessDrainEnd
  \/ ProcessWriteLock
  \/ \E ok \in BOOLEAN : ProcessWriteReturn(ok)
  \/ DeadlineFire
  \/ \E c \in Closers : CloserStep(c)

SpecBatch == InitBatch /\ [][NextBatch]_vars

\* ------------------------------------------------------ buffer pools in use
\* Callers of a synchronous console sink formatting records of every size,
\* through the formatter's pool and through the sink's pool of the contended
\* path; the sink itself is left alone.
InitPools == \E c \in SyncConfigs : InitWith(c)

NextPools ==
  \/ \E p \in Producers, n \in 1..MaxBufCap : FormatPooled(p, n)
  \/ \E p \in Producers : FormatDone(p)
  \/ \E p \in Producers, n \in 1..MaxBufCap : ParallelFormat(p, n)
  \/ \E p \in Producers : ParallelDone(p)

SpecPools == InitPools /\ [][NextPools]_vars

\* ------------------------------------------- sinks with the default policy
InitDefault == \E c \in DefaultConfigs : InitWith(c)

SpecDefault == InitDefault /\ [][NextWake]_vars

\* ------------------------------------------------------------ fan-out
\* A MultiHandler over any children; the sink of this module is left alone.
InitFan ==
  /\ InitSink(CHOOSE c \in SyncConfigs : TRUE)
  /\ \E hs \in ChildSeqs : mh = NewMultiHandler(hs)
  /\ fan = NoFanOut
  /\ InitFile(NoRotation, 0)

NextFan ==
  \/ \E fails \in Failures : MultiHandleLog(fails)
  \/ \E fails \in Failures : MultiHandle(fails)
  \/ \E fails \in Failures : MultiClose(fails)

SpecFan == InitFan /\ [][NextFan]_vars

\* A logger over a MultiHandler logging one record, and the consumers of the
\* asynchronous children.
NextLog ==
  \/ LogStart
  \/ \E fail \in BOOLEAN : LogChild(fail)
  \/ LogReturn
  \/ \E i \in 1..MaxChildren : ChildProcess(i)

SpecLog == InitFan /\ [][NextLog]_vars

\* ------------------------------------------------------- file rotation
\* A file sink with rotation thresholds, written to by one thread at a time.
InitRotate ==
  /\ mh = NewMultiHandler(<< >>)
  /\ fan = NoFanOut
  /\ \E s \in RotateSinks :
       /\ InitSink(s.sink)
       /\ InitFile(s.rotation, s.fileSize)

NextRotate ==
  \/ \E n \in 1..MaxRecord, o \in Outcomes : FileWrite(n, o)
  \/ Tick

SpecRotate == InitRotate /\ [][NextRotate]_vars

\* ------------------------------------------------------ synchronous sinks
\* Synchronous console and file sinks with at most one closing goroutine: the
\* callers' steps and the closer's.
SyncProducerStep(p) ==
  \/ SyncHandle(p)
  \/ WriteTryLock(p)
  \/ WriteContended(p)
  \/ WriteLock(p)
  \/ \E ok \in BOOLEAN : WriteReturn(p, ok)

SyncCloserStep(c) ==
  \/ Close(c)
  \/ CloseSignal(c)
  \/ \E ok \in BOOLEAN : CloseFile(c, ok)

SyncSinkConfigs == {c \in Configs : ~c.async /\ c.closers <= 1}

InitSync == \E c \in SyncSinkConfigs : InitWith(c)

NextSync ==
  \/ \E p \in Producers : SyncProducerStep(p)
  \/ \E c \in Closers : SyncCloserStep(c)

SpecSync == InitSync /\ [][NextSync]_vars

\* ================================================================== claims
RECURSIVE Sum(_, _)
Sum(f, S) ==
  IF S = {} THEN 0
  ELSE LET x == CHOOSE y \in S : TRUE IN f[x] + Sum(f, S \ {x})

WrittenIds == {out[i].id : i \in 1..Len(out)}
TotalDropped == Sum(dropped, DOMAIN dropped)
\* the number of Handle calls that have returned
Returned == Sum([p \in Producers |-> Len(rets[p])], Producers)
\* the number of Handle calls of the scenario
TotalCalls == Sum(cfg.calls, Producers)
AllReturned == \A p \in Producers : pc[p] = "idle" /\ calls[p] = cfg.calls[p]
DropNewestSink == \A p \in Producers : PolicyFor(cfg.level[p]) = DropNewest
\* The Close call that performed the shutdown has returned.
ShutdownReturned ==
  /\ shutdowns >= 1 /\ ~crashed
  /\ \A c \in Closers : clpc[c] = "idle"
\* No write failed and the drain deadline did not elapse.
CleanRun == failures = 0 /\ deadline # "elapsed"

\* C1: DropNewest accounting.  On an asynchronous sink whose levels all resolve
\* to DropNewest, when every Handle call returned before Close was called, no
\* write failed and the drain deadline did not elapse, then after Close has
\* returned processed + dropped equals the number of Handle calls (also per
\* level when all records have one level), and something was dropped whenever
\* a call found the queue full.
C1_DropNewestAccounting ==
  (cfg.async /\ DropNewestSink /\ ShutdownReturned /\ ~overlap /\ CleanRun)
    => /\ processed + TotalDropped = Returned
       /\ \A l \in DOMAIN dropped :
            (\A p \in Producers : cfg.level[p] = l) => processed + dropped[l] = Returned
       /\ sawFull => TotalDropped > 0

C1_Witness ==
  /\ cfg.async /\ DropNewestSink /\ ShutdownReturned /\ ~overlap /\ CleanRun
  /\ Returned = TotalCalls /\ TotalCalls > cfg.bufferSize
  /\ sawFull /\ TotalDropped > 0 /\ processed > 0

\* C2: on a Block-policy sink that is never closed and whose destination never
\* fails, every record passed to Handle is eventually written to the destination
\* (by the consumer or by the caller's fallback write).
C2_BlockLosesNothing ==
  \A p \in Producers : \A k \in 1..MaxCalls :
    (calls[p] >= k) ~> (RecId(p, k) \in WrittenIds)

\* Every record of the scenario is written, one by a caller whose wait timed
\* out and one by the consumer.
C2_Witness ==
  /\ cfg \in BlockConfigs
  /\ Len(out) = TotalCalls /\ blocked > 0
  /\ \E i, j \in 1..Len(out) : out[i].by = Consumer /\ out[j].by \in Producers

\* C3 (as claimed): a caller waiting in the Block path always stops waiting,
\* even when the queue never frees a slot and Close is never called.
C3_NoCallerWaitsForever ==
  \A p \in Producers : (pc[p] = "blockWait") ~> (pc[p] # "blockWait")

\* What Close calls made one after the other leave behind: one shutdown, the
\* file closed at most once, no panic, and a running Close can go on.
OneShutdown ==
  /\ shutdowns <= 1 /\ fileCloses <= 1
  /\ \A c \in Closers : clpc[c] # "panicked"
  /\ (~crashed /\ \E c \in Closers : clpc[c] # "idle") => ENABLED Next

C5_CloseDrainsAll ==
  (cfg.async /\ ShutdownReturned /\ CleanRun) => enqAtClose \subseteq WrittenIds

\* C5 (amended): the same for every such record that no DropOldest producer
\* evicted from the queue while the sink was shutting down.
C5_CloseDrains ==
  (cfg.async /\ ShutdownReturned /\ CleanRun) => (enqAtClose \ evicted) \subseteq WrittenIds

\* Two records enqueued before Close are written in the drain loop.
C5_Witness ==
  /\ cfg.async /\ ShutdownReturned /\ CleanRun
  /\ Cardinality(enqAtClose \ evicted) >= 2 /\ cmode = "drain"
  /\ \E i \in 1..Len(out) : out[i].by = Consumer /\ out[i].id \in enqAtClose

\* C6: FIFO delivery.  Of two records written by the consumer the one enqueued
\* first is written first.
C6_FIFO ==
  \A i, j \in 1..Len(out) :
    (out[i].by = Consumer /\ out[j].by = Consumer /\ out[i].ticket < out[j].ticket) => i < j

\* Two records of different producers, the second delivered in the drain loop.
C6_Witness ==
  /\ cmode = "drain"
  /\ \E i, j \in 1..Len(out) :
       /\ i < j /\ out[i].by = Consumer /\ out[j].by = Consumer
       /\ ProducerOf(out[i].id) # ProducerOf(out[j].id)

\* C7: the queue never holds more than BufferSize records.
C7_BoundedQueue == Len(queue) <= cfg.bufferSize

\* The largest queue is full while a caller that found it full waits for a slot
\* or is about to evict.
C7_Witness ==
  /\ Len(queue) = MaxBuf /\ cfg.bufferSize = MaxBuf
  /\ \E p \in Producers : pc[p] \in {"blockWait", "dropOldest"}

\* C8 (as claimed): a Handle call whose level resolves to DropNewest or
\* DropOldest never waits, never panics and returns nil.
C8_DropNeverBlocksNorFails ==
  \A p \in Producers :
    (cfg.async /\ PolicyFor(cfg.level[p]) \in {DropNewest, DropOldest})
      => /\ pc[p] \in {"idle", "dropOldest", "dropRetry"}
         /\ \A i \in 1..Len(rets[p]) : rets[p][i] = "nil"

\* C9: with a destination that is not concurrent-safe at most one thread is
\* inside the destination's Write.
C9_SerializedWrites == ~cfg.concurrentSafe => Cardinality(inWrite) <= 1

\* A caller took the pool path and waits for mu while the consumer writes.
C9_Witness ==
  /\ ~cfg.concurrentSafe /\ ~cfg.file /\ cfg.async
  /\ inWrite = {Consumer}
  /\ \E p \in Producers : pc[p] = "lock"

\* C10: on a synchronous sink whose destination never fails a call in progress
\* can always go on (no deadlock), and once every call has returned processed
\* equals the number of calls.
C10_SyncContention ==
  (~cfg.async /\ failures = 0)
    => /\ AllReturned => (processed = TotalCalls /\ Returned = TotalCalls)
       /\ (\E p \in Producers : pc[p] # "idle")
            => ENABLED (\E p \in Producers : WriteTryLock(p) \/ WriteContended(p)
                                             \/ WriteLock(p) \/ WriteReturn(p, TRUE))

\* Every call of every thread on a synchronous console sink has returned.
C10_Witness ==
  /\ ~cfg.async /\ ~cfg.file /\ cfg.fmt = "buffer" /\ failures = 0
  /\ AllReturned /\ processed = NProducers * MaxCalls

\* The records in the queue, in the consumer's hands or still held by a Handle
\* call (a caller that has sent its record only has the timer left to stop).
InQueue == {queue[i].id : i \in 1..Len(queue)}
InConsumer == IF cpc \in {"cwrite", "cInWrite"} THEN {centry.id} ELSE {}
InHandle == {Cur(p) : p \in {q \in Producers : pc[q] \notin {"idle", "panicked", "stop2"}}}
WrittenByConsumer == {out[i].id : i \in {j \in 1..Len(out) : out[j].by = Consumer}}

WrittenBySelf(p, k) ==
  \E i \in 1..Len(out) : out[i].id = RecId(p, k) /\ out[i].by = p

\* C12: Close wakes blocked producers.  Every caller parked in the Block select
\* when the closed-signal is raised leaves the select through case <-h.closed
\* at that moment, and then writes its record on its own thread and returns
\* (unless a panic elsewhere ends the process first).
C12_CloseWakesProducers ==
  /\ [][\A p \in Producers :
          (pc[p] = "blockWait" /\ ~closedSig /\ closedSig') => pc'[p] = "stop3"]_vars
  /\ \A p \in Producers : \A k \in 1..MaxCalls :
       (pc[p] = "stop3" /\ calls[p] = k)
         ~> ((WrittenBySelf(p, k) /\ Len(rets[p]) >= k) \/ crashed)

\* Every producer was parked when the closed-signal was raised.
C12_Witness ==
  /\ closedSig /\ ~crashed
  /\ \A p \in Producers : pc[p] = "stop3"

\* C13: consumer hard-stop.  A consumer write that returns an error ends the
\* consumer; from then on the consumer takes nothing from the queue and writes
\* nothing, whatever loop the failing write was made in.
C13_ConsumerHardStop ==
  [][/\ (cpc = "cInWrite" /\ cpc' # "cInWrite" /\ Len(out') = Len(out)) => cpc' = "dead"
     /\ cpc = "dead" => /\ cpc' = "dead" /\ centry' = centry
                        /\ WrittenByConsumer' = WrittenByConsumer]_vars

\* The consumer died in the drain loop with a record still queued, and Close
\* has returned.
C13_Witness ==
  /\ cpc = "dead" /\ cmode = "drain" /\ queue # << >>
  /\ ShutdownReturned

\* The calls of producer p that have returned v.
CallsReturning(p, v) == {k \in 1..Len(rets[p]) : rets[p][k] = v}
NilReturns == Sum([p \in Producers |-> Cardinality(CallsReturning(p, "nil"))], Producers)

C15_PolicyResolution ==
  /\ \A l \in Levels \ DOMAIN cfg.overflowPolicy : PolicyFor(l) = DropNewest
  /\ cfg.overflowPolicy = DefaultLevelPolicy
       => \A l \in Levels :
            PolicyFor(l) = IF l >= ErrorLevel THEN Block ELSE DropNewest

\* ------------------------------------------------------------ fan-out
Failed == {i \in 1..Len(fan.calls) : fan.calls[i].err # Nil}

LastOf(S) == CHOOSE i \in S : \A j \in S : j <= i

\* the operation of a child that corresponds to the fan-out operation
Corresponds(op, method) ==
  \/ op = method
  \/ op = "HandleLog" /\ method = "Handle"

\* C16: Handle, HandleLog and Close of a MultiHandler call the corresponding
\* operation on every child, in order, whether or not earlier children failed,
\* and return the error of the last child that failed, nil if none failed.
C16_FanOutDelivery ==
  fan.op # "none" =>
    /\ Len(fan.calls) = Len(mh.handlers)
    /\ \A i \in 1..Len(fan.calls) :
         /\ fan.calls[i].child = i
         /\ Corresponds(fan.op, fan.calls[i].method)
         /\ fan.calls[i].method = "HandleLog" => mh.handlers[i].fast
    /\ fan.ret = IF Failed = {} THEN Nil ELSE fan.calls[LastOf(Failed)].err

\* Close over three children: the first two failed, the third did not;
\* the result is the second failure.
C16_Witness ==
  /\ fan.op = "Close"
  /\ Len(fan.calls) = 3
  /\ Failed = {1, 2}
  /\ fan.ret = fan.calls[2].err
  /\ fan.ret # fan.calls[1].err

\* C17: on the mixed path of HandleLog (a record was taken from the pool) the
\* record is put back iff every child has CanRecycleEntry() and it reports
\* true; the all-fast path takes and puts nothing; and a record that was put
\* back was handed to no child that keeps it.
C17_FanOutRecycling ==
  fan.op = "HandleLog" =>
    /\ fan.got <=> \E i \in 1..Len(mh.handlers) : ~mh.handlers[i].fast
    /\ fan.put <=> (fan.got /\ \A i \in 1..Len(mh.handlers) : mh.handlers[i].rc = "true")
    /\ fan.put => \A i \in 1..Len(fan.calls) :
                    fan.calls[i].entry => ~mh.handlers[i].keeps

\* The mixed path with a fast child and a child that got the shared record,
\* all children recyclable: the record went back to the pool.
C17_Witness ==
  /\ fan.op = "HandleLog"
  /\ fan.got /\ fan.put
  /\ \E i, j \in 1..Len(fan.calls) : fan.calls[i].entry /\ ~fan.calls[j].entry

\* ------------------------------------------------------- file rotation
LastWrite == rlog.last

\* rotateIfNeeded called rotate() in the last write
Attempted == LastWrite.start.need

Min(a, b) == IF a < b THEN a ELSE b

\* a write that starts when currentSize >= MaxSize rotates before it writes
SizeRotatesFirst ==
  (fb.maxSize > 0 /\ LastWrite.start.size >= fb.maxSize)
    => Attempted /\ (LastWrite.wrote => LastWrite.rotated)

\* after a rotation check that returned nil the original path is an open
\* file, and after a rotation currentSize is what was written since
LiveAfterCheck ==
  ~LastWrite.checkErr
    => /\ disk.live
       /\ fb.fileOpen
       /\ LastWrite.rotated
            => fb.currentSize = IF LastWrite.wrote THEN LastWrite.start.n ELSE 0

\* C18 (as claimed): with MaxSize = S > 0 a write that starts when
\* currentSize >= S rotates before writing, so records whose cumulative size
\* exceeds S cause at least one rotation; and after a rotation check without
\* error the original path is an open file and currentSize counts the bytes
\* written since the rotation.
C18_SizeRotationAsClaimed ==
  rlog.writes > 0 =>
    /\ SizeRotatesFirst
    /\ LiveAfterCheck
    /\ (fb.maxSize > 0 /\ rlog.fsErrors = 0 /\ rlog.bytes > fb.maxSize)
         => rlog.rotations >= 1

\* C18 (amended): as above, but the rotation is caused by the write that
\* starts once the size has reached S: when the bytes in the file before the
\* last write (those found at construction included) had reached S, at least
\* one rotation has happened.
C18_SizeRotation ==
  rlog.writes > 0 =>
    /\ SizeRotatesFirst
    /\ LiveAfterCheck
    /\ (fb.maxSize > 0 /\ rlog.fsErrors = 0
          /\ rlog.initial + rlog.bytes - LastWrite.start.n >= fb.maxSize)
         => rlog.rotations >= 1

\* Only the size trigger is enabled; the last write found the size reached,
\* rotated and wrote its record into the new file.
C18_Witness ==
  /\ rlog.writes > 0
  /\ fb.maxSize > 0 /\ fb.maxAge = 0 /\ fb.rotateInterval = 0
  /\ LastWrite.start.size >= fb.maxSize
  /\ LastWrite.rotated /\ LastWrite.wrote
  /\ disk.live /\ DOMAIN disk.backups # {}

\* C19: a write attempts a rotation iff an enabled trigger holds when it
\* starts (MaxSize > 0 and currentSize >= MaxSize, or MaxAge > 0 and the time
\* since the last rotation >= MaxAge, or RotateInterval > 0 and that time >=
\* RotateInterval); a threshold of 0 never triggers; a successful rotation
\* resets currentSize and the last-rotation time, so that no trigger holds
\* until new bytes or new time have accumulated.
C19_RotationTrigger ==
  rlog.writes > 0 =>
    LET size == LastWrite.start.size
        elapsed == LastWrite.start.elapsed
    IN  /\ Attempted <=> \/ fb.maxSize > 0 /\ size >= fb.maxSize
                         \/ fb.maxAge > 0 /\ elapsed >= fb.maxAge
                         \/ fb.rotateInterval > 0 /\ elapsed >= fb.rotateInterval
        /\ (fb.maxSize = 0 /\ Attempted)
             => \/ fb.maxAge > 0 /\ elapsed >= fb.maxAge
                \/ fb.rotateInterval > 0 /\ elapsed >= fb.rotateInterval
        /\ (fb.maxAge = 0 /\ fb.rotateInterval = 0 /\ Attempted)
             => fb.maxSize > 0 /\ size >= fb.maxSize
        /\ (fb.maxSize = 0 /\ fb.maxAge = 0 /\ fb.rotateInterval = 0)
             => rlog.attempts = 0
        /\ LastWrite.rotated
             => /\ fb.lastRotateTime = LastWrite.at
                /\ fb.currentSize = IF LastWrite.wrote THEN LastWrite.start.n ELSE 0
                /\ NeedRotate
                     => \/ now > LastWrite.at
                        \/ LastWrite.wrote /\ LastWrite.start.n >= fb.maxSize

\* Only the interval trigger is enabled; the last write came an interval after
\* the previous rotation and rotated; the clock has not moved since, and no
\* trigger holds.
C19_Witness ==
  /\ rlog.writes > 0
  /\ fb.maxSize = 0 /\ fb.maxAge = 0 /\ fb.rotateInterval > 0
  /\ LastWrite.rotated
  /\ LastWrite.start.elapsed >= fb.rotateInterval
  /\ now = LastWrite.at
  /\ ~NeedRotate

\* the rotations whose files are in the directory
KeptRotations == {disk.backups[f].gen : f \in DOMAIN disk.backups}

\* C20 (as claimed): with MaxBackups = N > 0 and no file-system errors, after
\* k successful rotations exactly min(k, N) rotated files and the live file
\* exist, and the rotated files are those of the last min(k, N) rotations.
C20_BackupRetention ==
  (fb.maxBackups > 0 /\ rlog.fsErrors = 0)
    => LET k == rlog.rotations
           kept == Min(k, fb.maxBackups)
       IN  /\ disk.live
           /\ Cardinality(DOMAIN disk.backups) = kept
           /\ KeptRotations = (k - kept + 1)..k

\* C21 (as claimed): when the rename of a rotation fails and the original path
\* is reopened, the triggering write returns the error, and logging goes on:
\* the sink keeps writing, and every later write that meets no failure of its
\* own puts its record into the file at the original path and returns nil.
C21_RenameRecovery ==
  /\ (rlog.writes > 0 /\ LastWrite.o = "renameErr")
       => LastWrite.checkErr /\ ~LastWrite.wrote /\ fb.fileOpen /\ disk.live
  /\ rlog.recoveredAt > 0
       => /\ cfg.async => cpc = "select"
          /\ (rlog.writes > rlog.recoveredAt /\ LastWrite.o = "ok")
               => ~LastWrite.checkErr /\ LastWrite.wrote /\ fb.fileOpen /\ disk.live

\* no file-system call had failed when the last write started
NoErrorBefore == rlog.fsErrors = IF LastWrite.o = "ok" THEN 0 ELSE 1

C22_FlushOnClose ==
  (cfg.file /\ ~flushErr /\ \E i \in 1..Len(closeLog) : closeLog[i] = "nil")
    => /\ processed = Len(out)
       /\ \A i \in 1..Len(out) : ~out[i].late

\* C24 (as claimed): a record whose level resolves to Block is never discarded
\* by the overflow machinery: no DropOldest caller removes an enqueued
\* Block-policy record from the queue.
C24_CriticalNeverDropped ==
  \A id \in evicted : PolicyFor(LevelOf(id)) # Block

\* C25 (as claimed): a Handle call on an asynchronous sink that runs after or
\* during Close never sends on the closed queue and never panics.  (Levels
\* whose drop cannot be counted are left out: their panic is another one.)
C25_NoSendAfterClose ==
  (cfg.async /\ \A p \in Producers : ~DropPanics(cfg.level[p]))
    => \A p \in Producers : pc[p] # "panicked"

\* C26 (as claimed): when several threads call Close on one asynchronous sink
\* at the same time, exactly one performs the shutdown, neither channel is
\* closed twice and no call panics.
C26_ConcurrentClose ==
  cfg.async
    => /\ shutdowns <= 1
       /\ \A c \in Closers : clpc[c] # "panicked"

\* C27 (as claimed): a pooled record handed to MultiHandler.Handle by
\* Logger.log is put back into the pool at most once, and not before every
\* child has been handed it and has finished with it.
C27_SingleRecycling ==
  fan.op = "Log"
    => /\ fan.puts <= 1
       /\ ~fan.early
       /\ fan.put => fan.held = {}

\* C28 (as claimed): on an asynchronous sink whose queue is open, a Handle
\* call that finds the queue full returns normally whatever the level of its
\* record: counting the drop never panics, and every drop is in the statistics.
C28_DropSafeForEveryLevel ==
  (cfg.async /\ ~queueClosed)
    => /\ \A p \in Producers : pc[p] # "panicked"
       /\ \A p \in Producers :
            (DropPanics(cfg.level[p]) /\ PolicyFor(cfg.level[p]) # Block) => ~crashed

\* C29: Close always terminates.  With fair scheduling and destination
\* writes that return, every Close call on an asynchronous sink returns:
\* with callers in the Block select, callers writing their record themselves
\* under the sink lock, and a consumer that ended on a write error (unless a
\* panic of another goroutine ends the process first).
C29_CloseTerminates ==
  \A c \in Closers : (clpc[c] # "idle") ~> (clpc[c] = "idle" \/ crashed)

\* Close has returned although the consumer had ended on a write error while
\* a caller was writing its own record under the lock.
C29_Witness ==
  /\ ShutdownReturned /\ cpc = "dead"
  /\ \E p \in Producers : pc[p] = "inWrite" /\ mu = p

\* The call of producer p in progress returns nil in this step.
ReturnsNil(p) ==
  /\ pc'[p] = "idle" /\ Len(rets'[p]) = Len(rets[p]) + 1
  /\ rets'[p][Len(rets'[p])] = "nil"

\* C30: DropOldest step.  A DropOldest call that found the queue full and
\* reaches its second select with the queue still full and no sender parked on
\* it removes exactly the oldest queued record and counts one drop; its retry,
\* on the queue as it left it, appends the incoming record (the queue is as
\* long as before the call) and returns nil without counting anything more.
\* Only a retry that finds the queue full again drops the incoming record,
\* counts it and returns nil, leaving the queue as it is.
C30_DropOldestStep ==
  [][\A p \in Producers :
       /\ (pc[p] = "dropOldest" /\ pc'[p] # "dropOldest"
              /\ Len(queue) = cfg.bufferSize /\ Parked = {})
            => /\ pc'[p] = "dropRetry"
               /\ queue' = Tail(queue)
               /\ evicted' = evicted \cup {Head(queue).id}
               /\ TotalDropped' = TotalDropped + 1
       /\ (pc[p] = "dropRetry" /\ pc'[p] # "dropRetry" /\ ~queueClosed)
            => /\ ReturnsNil(p)
               /\ IF Len(queue) < cfg.bufferSize
                  THEN /\ Len(queue') = Len(queue) + 1
                       /\ queue'[Len(queue')].id = Cur(p)
                       /\ SubSeq(queue', 1, Len(queue)) = queue
                       /\ dropped' = dropped
                  ELSE /\ queue' = queue
                       /\ Cur(p) \notin enqd'
                       /\ TotalDropped' = TotalDropped + 1]_vars

\* The only DropOldest caller made one call on a full queue of two records:
\* the oldest was removed and counted, its own record is the newest queued one
\* and the call returned nil.
C30_Witness ==
  \E p \in Producers :
    /\ PolicyFor(cfg.level[p]) = DropOldest
    /\ \A q \in Producers \ {p} : PolicyFor(cfg.level[q]) # DropOldest
    /\ calls[p] = 1 /\ pc[p] = "idle" /\ rets[p] = <<"nil">>
    /\ cfg.bufferSize = MaxBuf /\ Len(queue) = MaxBuf
    /\ queue[Len(queue)].id = Cur(p)
    /\ Cardinality(evicted) = 1 /\ TotalDropped = 1

\* Levels for which Stats has a dropped counter (Debug..Error).
CountedLevels == \A p \in Producers : ~DropPanics(cfg.level[p])

\* No Handle call is in progress, the consumer holds no record, no write has
\* failed and no goroutine has panicked.
Quiescent ==
  /\ cfg.async /\ ~crashed /\ failures = 0
  /\ \A p \in Producers : pc[p] = "idle"
  /\ centry = NoEntry /\ cpc \in {"select", "batch", "drain", "done"}

\* C31: conservation of records.  At every quiescent state of an asynchronous
\* sink whose producers log at levels Debug..Error, under any mix of
\* DropNewest, DropOldest and Block, the number of completed Handle calls is
\* processed plus the dropped counters plus the queue length.
C31_Conservation ==
  (Quiescent /\ CountedLevels)
    => Returned = processed + TotalDropped + Len(queue)

\* A quiescent state after a DropOldest caller evicted a record, with records
\* written, dropped and still queued.
C31_Witness ==
  /\ Quiescent /\ CountedLevels
  /\ evicted # {} /\ processed >= 1 /\ TotalDropped >= 1 /\ Len(queue) >= 1
  /\ \E p \in Producers : PolicyFor(cfg.level[p]) = Block

\* Producer p is in the three-way select of the Block branch.
InBlockSelect(p) == pc[p] \in {"blockSelect", "blockWait"}

\* C32: blocked counter.  The blocked counter goes up by one exactly when a
\* call leaves the Block select through case <-h.blockTimer.C, and that call
\* goes on to write its record, which was not enqueued, on its own thread; it
\* stays as it is when the call leaves the select because its record was
\* enqueued or because the sink is closing.
C32_BlockedCounter ==
  /\ [][/\ \A p \in Producers :
            /\ (InBlockSelect(p) /\ pc'[p] = "write") => blocked' = blocked + 1
            /\ (InBlockSelect(p) /\ pc'[p] \in {"stop2", "stop3"}) => blocked' = blocked
        /\ blocked' # blocked
             => /\ blocked' = blocked + 1
                /\ Cardinality({p \in Producers : InBlockSelect(p) /\ pc'[p] = "write"}) = 1]_vars
  /\ [](\A p \in Producers : pc[p] \in {"write", "inWrite"} => Cur(p) \notin enqd)

\* Two calls ended by writing their record themselves, one after the timeout
\* and one after the close signal: one call was counted as blocked.
C32_Witness ==
  /\ blocked = 1 /\ closedSig /\ ~crashed
  /\ \E p, q \in Producers :
       /\ p # q /\ pc[p] = "idle" /\ pc[q] = "idle"
       /\ WrittenBySelf(p, calls[p]) /\ WrittenBySelf(q, calls[q])

\* C33: reusable timer hygiene.  A caller leaves the Block select through the
\* timeout case only with the expiry of the timer that its own Reset armed for
\* this wait, never with an expiry of another call's timer, also when several
\* callers are in the Block branch at once.
C33_TimerHygiene ==
  [][\A p \in Producers :
       (InBlockSelect(p) /\ pc'[p] = "write")
         => Cur(p) = IF timerC = 1 /\ timerC' = 0 THEN expiry.chan ELSE expiry.armed]_vars

\* C34: DropOldest discards only under pressure.  A DropOldest caller removes
\* a queued record only from a queue that is full at that moment: when a slot
\* was freed after its failed send, it discards nothing.
C34_DiscardOnlyWhenFull ==
  [][\A p \in Producers :
       (pc[p] = "dropOldest" /\ pc'[p] # "dropOldest" /\ evicted' # evicted)
         => Len(queue) = cfg.bufferSize]_vars

\* C35: drop attribution.  When a DropOldest caller removes a queued record,
\* the dropped counter of the removed record's level goes up by one and no
\* other counter changes.
C35_DropAttribution ==
  [][\A p \in Producers :
       (pc[p] = "dropOldest" /\ pc'[p] # "dropOldest" /\ evicted' # evicted)
         => LET level == LevelOf(Head(queue).id)
            IN /\ level \in DOMAIN dropped
               /\ dropped' = [dropped EXCEPT ![level] = @ + 1]]_vars

\* How often record id has been written to the destination.
TimesWritten(id) == Cardinality({i \in 1..Len(out) : out[i].id = id})

\* C36: at-most-once delivery.  On an asynchronous sink no record is written
\* to the destination twice, and a record that was enqueued is never written
\* by its caller's own fallback write, nor is the caller of an enqueued record
\* on its way to that write.
C36_AtMostOnce ==
  cfg.async
    => /\ \A id \in 1..(NProducers * MaxCalls) : TimesWritten(id) <= 1
       /\ \A p \in Producers : \A k \in 1..calls[p] :
            RecId(p, k) \in enqd => ~WrittenBySelf(p, k)
       /\ \A p \in Producers : pc[p] \in {"stop3", "write", "inWrite"} => Cur(p) \notin enqd

\* After Close: one Block record went through the queue and was written by
\* the consumer, another was written by its caller after a timeout, and a
\* third by its caller after the close signal.
C36_Witness ==
  /\ cfg.async /\ closedSig /\ blocked = 1 /\ ~crashed
  /\ \E id \in WrittenByConsumer : PolicyFor(LevelOf(id)) = Block
  /\ Cardinality({i \in 1..Len(out) : out[i].by # Consumer}) = 2

\* C37: processed means written.  The processed counter never exceeds the
\* number of records whose destination write has returned without an error.
C37_ProcessedMeansWritten ==
  processed <= Len(out)

\* C38: rotation state is lock-protected.  On a file sink every thread inside
\* the write section (rotation check, buffered writer, currentSize) holds mu,
\* so at most one is inside; what the file has accepted changes only in the
\* step in which the lock holder leaves that section, and the file is closed
\* only in a step that takes the free lock.  This covers the consumer, the
\* callers of the synchronous sink, the Block-fallback callers and Close.
C38_RotationStateLocked ==
  /\ [](cfg.file => \A t \in inWrite : mu = t)
  /\ [][cfg.file
          => /\ out' # out => (mu \in inWrite /\ mu' = Free)
             /\ fileCloses' # fileCloses => (mu = Free /\ mu' = Free /\ inWrite = {})]_vars

\* A caller of a file sink is writing under the lock while another caller
\* waits for the lock and Close waits to close the file.
C38_Witness ==
  /\ cfg.file
  /\ \E p, q \in Producers : p \in inWrite /\ mu = p /\ pc[q] = "lock"
  /\ \E c \in Closers : clpc[c] = "closeFile"

\* C39: distinct backups.  Every successful rotation renames the live file to
\* a name that no rotated file in the directory has, also when it is the
\* second rotation within one second.
C39_DistinctBackups ==
  [][rlog'.rotations > rlog.rotations => Stamp(now) \notin DOMAIN disk.backups]_vars

\* C40: pool ceiling.  Neither the formatter's buffer pool nor the pool of
\* the contended path ever holds a buffer whose capacity is above the 64 KiB
\* ceiling.
C40_PoolCeiling ==
  \A c \in BufCaps : c > PoolCeiling => (bufs.formatter[c] = 0 /\ bufs.par[c] = 0)

====
